---- MODULE Spec2Model ----
(***************************************************************************)
(* A model of the 2D physics engine (PhysicsEngine, Shape and its three    *)
(* kinds, BroadPhaseDetector, Quadtree) and of the fixed-timestep loop of  *)
(* main().                                                                 *)
(*                                                                         *)
(* Numbers.  The program computes in float.  The model computes in fixed   *)
(* point: a length is an integer number of hundredths of a world unit, a   *)
(* velocity is hundredths per second, the deltaTime of update() is a       *)
(* fraction <<n, d>> of a second, a restitution is a percentage.  A        *)
(* product or a quotient that has more digits than that is truncated       *)
(* toward zero.  The accumulator of main() is the float it is.             *)
(*                                                                         *)
(* Bodies.  A Shape* is an address; the heap maps the addresses of the     *)
(* live bodies to their fields.  shapes is the vector of unique_ptr, in    *)
(* insertion order.  A pointer to an erased body dangles: following it is  *)
(* undefined behaviour, recorded in ub.                                    *)
(***************************************************************************)
EXTENDS Integers, Sequences, FiniteSets, TLC

-----------------------------------------------------------------------------
(* Arithmetic *)

\* float resolution of the model: hundredths of a world unit
Scale == 100

Abs(n) == IF n < 0 THEN -n ELSE n

Min(a, b) == IF a < b THEN a ELSE b

Max(a, b) == IF a > b THEN a ELSE b

\* C++ division of the model's numbers: the quotient truncated toward zero
TDiv(a, b) == IF (a >= 0) = (b > 0) THEN Abs(a) \div Abs(b) ELSE -(Abs(a) \div Abs(b))

\* sqrt of the model's numbers: the largest k with k*k <= n, found bit by bit
\* (46340 is the largest root whose square a 32-bit integer holds)
RECURSIVE SqrtBits(_, _, _)
SqrtBits(n, k, step) ==
    IF step = 0 THEN k
    ELSE IF k + step <= 46340 /\ (k + step) * (k + step) <= n
         THEN SqrtBits(n, k + step, step \div 2)
         ELSE SqrtBits(n, k, step \div 2)

ISqrt(n) == SqrtBits(n, 0, 32768)

Range(s) == {s[i] : i \in DOMAIN s}

\* the concatenation of a sequence of sequences
RECURSIVE Flatten(_)
Flatten(ss) == IF ss = <<>> THEN <<>> ELSE Head(ss) \o Flatten(Tail(ss))

-----------------------------------------------------------------------------
(* Shapes (shapes.h, shapes.cpp) *)

NULL == 0

Vec(x, y) == <<x, y>>

VAdd(a, b) == <<a[1] + b[1], a[2] + b[2]>>

VSub(a, b) == <<a[1] - b[1], a[2] - b[2]>>

Dot(a, b) == a[1] * b[1] + a[2] * b[2]

\* a.x*b.y - a.y*b.x
Cross(a, b) == a[1] * b[2] - a[2] * b[1]

\* glm::length(d) < r, by the squares; a component of r or more decides it
\* without them
LengthLess(d, r) ==
    /\ r > 0
    /\ Abs(d[1]) < r
    /\ Abs(d[2]) < r
    /\ Dot(d, d) < r * r

\* glm::length(d) <= r
LengthAtMost(d, r) ==
    /\ r >= 0
    /\ Abs(d[1]) <= r
    /\ Abs(d[2]) <= r
    /\ Dot(d, d) <= r * r

\* sideLength * sqrt(3.0f) / 2.0f
TriHeight(side) == TDiv(side * 8660, 10000)

\* Triangle::updateVertices: the three vertices, computed from the position
\* the triangle has when it is called
TriVertices(pos, side) ==
    LET height == TriHeight(side)
    IN << VAdd(pos, Vec(0, TDiv(height, 3))),
          VAdd(pos, Vec(-TDiv(side, 2), -TDiv(height, 3))),
          VAdd(pos, Vec(TDiv(side, 2), -TDiv(height, 3))) >>

\* Shape::Shape with PhysicsProperties' defaults; the size members of the
\* other kinds are 0
NewShape(type, pos) ==
    [ type |-> type, pos |-> pos, vel |-> Vec(0, 0),
      mass |-> 1, gravity |-> 981, friction |-> 10, restitution |-> 80,
      isStatic |-> FALSE,
      useGlobalGravity |-> TRUE,
      radius |-> 0, width |-> 0, height |-> 0, sideLength |-> 0,
      vertices |-> <<>>,
      angularVelocity |-> 0,
      isSelected |-> FALSE, isDragging |-> FALSE, dragOffset |-> Vec(0, 0),
      dragHistory |-> <<>> ]

\* Circle::Circle: the radius is stored as given
Circle(pos, r) == [NewShape("CIRCLE", pos) EXCEPT !.radius = r]

\* Rectangle::Rectangle: width and height are stored as given
Rectangle(pos, w, h) == [NewShape("RECTANGLE", pos) EXCEPT !.width = w, !.height = h]

\* Triangle::Triangle: the side is stored as given, the vertices computed once
Triangle(pos, side) ==
    [NewShape("TRIANGLE", pos) EXCEPT !.sideLength = side,
                                      !.vertices = TriVertices(pos, side)]

\* Circle/Rectangle/Triangle::getBoundingBox
GetBoundingBox(s) ==
    CASE s.type = "CIRCLE" ->
           [min |-> VSub(s.pos, Vec(s.radius, s.radius)),
            max |-> VAdd(s.pos, Vec(s.radius, s.radius))]
      [] s.type = "RECTANGLE" ->
           [min |-> VSub(s.pos, Vec(TDiv(s.width, 2), TDiv(s.height, 2))),
            max |-> VAdd(s.pos, Vec(TDiv(s.width, 2), TDiv(s.height, 2)))]
      [] OTHER ->
           LET height == TriHeight(s.sideLength)
           IN [min |-> VSub(s.pos, Vec(TDiv(s.sideLength, 2), TDiv(height, 3))),
               max |-> VAdd(s.pos, Vec(TDiv(s.sideLength, 2), TDiv(height * 2, 3)))]

\* BoundingBox::intersects
Intersects(a, b) ==
    /\ a.min[1] <= b.max[1] /\ a.max[1] >= b.min[1]
    /\ a.min[2] <= b.max[2] /\ a.max[2] >= b.min[2]

\* Circle/Rectangle/Triangle::getBoundingRadius
GetBoundingRadius(s) ==
    CASE s.type = "CIRCLE" -> s.radius
      [] s.type = "RECTANGLE" ->
           TDiv(ISqrt(s.width * s.width + s.height * s.height), 2)
      [] OTHER -> TDiv(s.sideLength * 577, 1000)

\* Circle/Rectangle/Triangle::containsPoint.  The triangle's barycentric
\* coordinates u = (dot11*dot02 - dot01*dot12)/denom and
\* v = (dot00*dot12 - dot01*dot02)/denom are, by Lagrange's identity,
\* cross(v2,v1)/cross(v0,v1) and cross(v0,v2)/cross(v0,v1); a degenerate
\* triangle (denom 0) divides by zero and contains nothing
ContainsPoint(s, p) ==
    CASE s.type = "CIRCLE" -> LengthAtMost(VSub(p, s.pos), s.radius)
      [] s.type = "RECTANGLE" ->
           /\ p[1] >= s.pos[1] - TDiv(s.width, 2)
           /\ p[1] <= s.pos[1] + TDiv(s.width, 2)
           /\ p[2] >= s.pos[2] - TDiv(s.height, 2)
           /\ p[2] <= s.pos[2] + TDiv(s.height, 2)
      [] OTHER ->
           LET v0 == VSub(s.vertices[2], s.vertices[1])
               v1 == VSub(s.vertices[3], s.vertices[1])
               v2 == VSub(p, s.vertices[1])
               den == Cross(v0, v1)
               sg == IF den > 0 THEN 1 ELSE -1
               u == sg * Cross(v2, v1)
               v == sg * Cross(v0, v2)
           IN /\ den # 0
              /\ u >= 0
              /\ v >= 0
              /\ u + v <= Abs(den)

-----------------------------------------------------------------------------
(* Bounds of the model *)

\* addresses a body can be allocated at
MaxShapes == 2

\* update() calls in one behaviour
MaxFrames == 1

\* the arguments of PhysicsEngine(width, height), in world units
WorldWidth == 300

WorldHeight == 200

Addr == 1 .. MaxShapes

-----------------------------------------------------------------------------
(* State *)

VARIABLES
    shapes,                    \* PhysicsEngine::shapes: the addresses owned, in order
    heap,                      \* the live Shape objects, by address
    heapTop,                   \* the allocator: the addresses up to it have been handed out
    selectedShape,             \* PhysicsEngine::selectedShape: an address or NULL
    mousePressed,              \* PhysicsEngine::mousePressed
    mousePosition,             \* PhysicsEngine::mousePosition
    worldGravity,              \* PhysicsEngine::worldGravity
    worldBounds,               \* PhysicsEngine::worldBounds
    currentFrame,              \* PhysicsEngine::currentFrame
    collisionChecksThisFrame,  \* PhysicsEngine::collisionChecksThisFrame
    actualCollisionsThisFrame, \* PhysicsEngine::actualCollisionsThisFrame
    quadtree,                  \* PhysicsEngine::quadtree: the root node
    potentialPairs,            \* BroadPhaseDetector::potentialPairs
    spatialGrid,               \* PhysicsEngine::spatialGrid
    neighborTracking,          \* PhysicsEngine::neighborTracking
    collisionPredictions,      \* PhysicsEngine::collisionPredictions
    collisions,                \* PhysicsEngine::collisions
    smallCount,                \* the body count up to which all pairs are tested (200)
    useMultiThreading,         \* PhysicsEngine::useMultiThreading
    threadCount,               \* PhysicsEngine::threadCount
    workers,                   \* the collisionThreads of a detection that is under way
    pc,                        \* where update() is: "idle" between calls
    ub,                        \* "none", or what following a dangling pointer did
    clock,                     \* std::chrono::steady_clock, in ticks of 0.0001 s
    accumulator,               \* main(): accumulator, in units of 2^-30 s
    mainpc,                    \* main(): where the loop is
    stepsThisFrame,            \* main(): update() calls of the current loop iteration
    stamp,                     \* history: when each live body was added
    added,                     \* history: addShape calls so far
    mouseEvents,               \* history: the mouse handlers and drag methods called so far
    refsRead,                  \* history: addresses followed by the current update()
    phaseLog,                  \* history: the phases the current update() has done
    tested                     \* history: the pairs the current update() has tested

engineVars ==
    << shapes, heap, heapTop, selectedShape, mousePressed, mousePosition, worldGravity,
       worldBounds, currentFrame, collisionChecksThisFrame, actualCollisionsThisFrame,
       quadtree, potentialPairs, spatialGrid, neighborTracking,
       collisionPredictions, collisions, smallCount, useMultiThreading, threadCount,
       workers, pc, ub, clock >>

\* the threading fields and the threads
threadVars == << useMultiThreading, threadCount, workers >>

mainVars == << accumulator, mainpc, stepsThisFrame >>

historyVars == << stamp, added, mouseEvents, refsRead, phaseLog, tested >>

vars == << engineVars, mainVars, historyVars >>

Live == Range(shapes)

\* following a Shape*: defined for the address of a body the engine owns
Dangling(a) == a \notin Live

-----------------------------------------------------------------------------
(* Quadtree (physics_engine.h, physics_engine.cpp) *)

MAX_OBJECTS == 10

MAX_LEVELS == 8

\* Quadtree::Quadtree: QuadtreeBounds halves the width and height given
QuadtreeNode(center, width, height, lvl) ==
    [ center |-> center, halfWidth |-> TDiv(width, 2), halfHeight |-> TDiv(height, 2),
      level |-> lvl, objects |-> <<>>, children |-> <<>> ]

\* Quadtree::clear
QuadtreeClear(node) == [node EXCEPT !.objects = <<>>, !.children = <<>>]

\* Quadtree::split: four children, each as wide and as high as the node,
\* centred on its corners
QuadtreeSplit(node) ==
    LET x == node.center[1]
        y == node.center[2]
        subWidth == node.halfWidth
        subHeight == node.halfHeight
        Child(cx, cy) == QuadtreeNode(Vec(cx, cy), subWidth * 2, subHeight * 2, node.level + 1)
    IN [node EXCEPT !.children =
           << Child(x - subWidth, y - subHeight), Child(x + subWidth, y - subHeight),
              Child(x - subWidth, y + subHeight), Child(x + subWidth, y + subHeight) >>]

\* getIndex as it would be if it took every point for one of the first
\* quadrant
QuadtreeGetIndexFirst(node, point) == 1

\* Quadtree::getIndex, counted from 1 as the children are here
QuadtreeGetIndex(node, point) ==
    LET topQuadrant == point[2] > node.center[2]
        rightQuadrant == point[1] > node.center[1]
    IN IF rightQuadrant THEN (IF topQuadrant THEN 4 ELSE 2)
       ELSE (IF topQuadrant THEN 3 ELSE 1)

\* Quadtree::insert; h gives the position of each object
RECURSIVE QuadtreeInsert(_, _, _)
RECURSIVE QuadtreeRedistribute(_, _, _)
QuadtreeRedistribute(node, objs, h) ==
    IF objs = <<>> THEN [node EXCEPT !.objects = <<>>]
    ELSE LET index == QuadtreeGetIndex(node, h[Head(objs)].pos)
             moved == [node EXCEPT !.children[index] =
                          QuadtreeInsert(node.children[index], Head(objs), h)]
         IN QuadtreeRedistribute(moved, Tail(objs), h)

QuadtreeInsert(node, object, h) ==
    IF node.children # <<>>
    THEN LET index == QuadtreeGetIndex(node, h[object].pos)
         IN [node EXCEPT !.children[index] =
                QuadtreeInsert(node.children[index], object, h)]
    ELSE LET pushed == [node EXCEPT !.objects = Append(node.objects, object)]
         IN IF Len(pushed.objects) > MAX_OBJECTS /\ pushed.level < MAX_LEVELS
            THEN QuadtreeRedistribute(QuadtreeSplit(pushed), pushed.objects, h)
            ELSE pushed

RECURSIVE QuadtreeInsertAll(_, _, _)
QuadtreeInsertAll(node, objs, h) ==
    IF objs = <<>> THEN node
    ELSE QuadtreeInsertAll(QuadtreeInsert(node, Head(objs), h), Tail(objs), h)

\* PhysicsEngine::updateQuadtree
UpdateQuadtree(node, objs, h) == QuadtreeInsertAll(QuadtreeClear(node), objs, h)

\* every object a node and its descendants hold
RECURSIVE QuadtreeObjects(_)
QuadtreeObjects(node) ==
    Range(node.objects) \cup
    UNION {QuadtreeObjects(node.children[i]) : i \in DOMAIN node.children}

-----------------------------------------------------------------------------
(* Spatial grid, broad phase, neighbor cache (physics_engine.cpp) *)

\* BroadPhaseDetector::update: const float cellSize = 100.0f
BroadCellSize == 100 * Scale

\* PhysicsEngine::PhysicsEngine: maxNeighborDistance(100.0f)
MaxNeighborDistance == 100 * Scale

\* PhysicsEngine::PhysicsEngine: neighborUpdateInterval(10)
NeighborUpdateInterval == 10

\* PhysicsEngine::PhysicsEngine: spatialUpdateInterval(5)
SpatialUpdateInterval == 5

\* SpatialCell::overlaps
CellOverlaps(cell, center, radius) ==
    LET closest == Vec(Max(cell.min[1], Min(center[1], cell.max[1])),
                       Max(cell.min[2], Min(center[2], cell.max[2])))
    IN LengthAtMost(VSub(center, closest), radius)

\* PhysicsEngine::createAdaptiveGrid: the cell size is 100 for no body and
\* otherwise 100 / (1 + 10 * density) kept within [50, 200], where density is
\* count * 50 * 50 / (width * height); the loops step by the size cast to int
AdaptiveCellSize(count, bounds) ==
    LET hundredthOfArea == TDiv(TDiv(bounds[1], Scale) * TDiv(bounds[2], Scale), 100)
    IN IF count = 0 THEN 100 * Scale
       ELSE Max(50 * Scale,
                Min(200 * Scale,
                    TDiv(100 * Scale * hundredthOfArea, hundredthOfArea + 250 * count)))

CreateAdaptiveGrid(count, bounds) ==
    LET cellSize == AdaptiveCellSize(count, bounds)
        step == TDiv(cellSize, Scale)
        w == TDiv(bounds[1], Scale)
        ht == TDiv(bounds[2], Scale)
        nx == IF w <= 0 THEN 0 ELSE (w + step - 1) \div step
        ny == IF ht <= 0 THEN 0 ELSE (ht + step - 1) \div step
    IN [k \in 1 .. nx * ny |->
          LET x == ((k - 1) \div ny) * step * Scale
              y == ((k - 1) % ny) * step * Scale
          IN [min |-> Vec(x, y), max |-> Vec(x + cellSize, y + cellSize),
              objects |-> <<>>, lastUpdateFrame |-> 0]]

\* PhysicsEngine::updateSpatialPartitioning: every cell gets, in the order
\* of shapes, the bodies whose bounding circle overlaps it.  The energy
\* density of a cell is a float that nothing reads; it is left out
UpdateSpatialPartitioning(objs, h, bounds, frame) ==
    LET grid == CreateAdaptiveGrid(Len(objs), bounds)
    IN [k \in DOMAIN grid |->
          [grid[k] EXCEPT
             !.objects = SelectSeq(objs,
                 LAMBDA a : CellOverlaps(grid[k], h[a].pos, GetBoundingRadius(h[a]))),
             !.lastUpdateFrame = frame]]

\* the all-pairs loop of BroadPhaseDetector::update and of
\* processCollisionsMultiThreaded: (i, j) for i < j, i outer
AllPairs(objs) ==
    Flatten([i \in DOMAIN objs |->
               [k \in 1 .. (Len(objs) - i) |-> <<objs[i], objs[i + k]>>]])

\* static_cast<int>(coordinate / cellSize)
CellIndex(coordinate) == TDiv(coordinate, BroadCellSize)

\* the grid as it would be if a body were registered in the cell of its
\* centre only
CellOfCentre(s) == {<<TDiv(s.pos[1], 100 * Scale), TDiv(s.pos[2], 100 * Scale)>>}

\* the grid cells BroadPhaseDetector::update registers a body in
CellsOf(s) ==
    LET bbox == GetBoundingBox(s)
    IN (CellIndex(bbox.min[1]) .. CellIndex(bbox.max[1])) \X
       (CellIndex(bbox.min[2]) .. CellIndex(bbox.max[2]))

\* uniquePairs as it would be if a pair of bodies that share more than one
\* cell were kept in both orders
GridPairSetBothOrders(objs, h) ==
    {<<a, b>> \in Range(objs) \X Range(objs) :
        /\ a # b
        /\ CellsOf(h[a]) \cap CellsOf(h[b]) # {}
        /\ a > b => Cardinality(CellsOf(h[a]) \cap CellsOf(h[b])) > 1}

\* the set uniquePairs of BroadPhaseDetector::update: the pairs of bodies
\* that share a cell, the lower address first
GridPairSet(objs, h) ==
    {<<a, b>> \in Range(objs) \X Range(objs) :
        a < b /\ CellsOf(h[a]) \cap CellsOf(h[b]) # {}}

\* a set of pairs as a sequence, in the order of the addresses: one of the
\* orders an unordered_set can be iterated in
RECURSIVE PairsInOrder(_)
PairsInOrder(ps) ==
    IF ps = {} THEN <<>>
    ELSE LET first == CHOOSE p \in ps :
                         \A q \in ps : p[1] < q[1] \/ (p[1] = q[1] /\ p[2] <= q[2])
         IN <<first>> \o PairsInOrder(ps \ {first})

\* BroadPhaseDetector::update
BroadPhaseUpdate(objs, h, small) ==
    IF Len(objs) <= small THEN AllPairs(objs)
    ELSE PairsInOrder(GridPairSet(objs, h))

\* updateNeighborTracking as it would be without the test that skips the
\* body itself
UpdateNeighborTrackingWithSelf(objs, h, frame) ==
    [i \in DOMAIN objs |->
       [object |-> objs[i],
        neighbors |-> SelectSeq(objs,
            LAMBDA o : LengthAtMost(VSub(h[objs[i]].pos, h[o].pos), MaxNeighborDistance)),
        lastUpdateFrame |-> frame]]

\* PhysicsEngine::updateNeighborTracking
UpdateNeighborTracking(objs, h, frame) ==
    [i \in DOMAIN objs |->
       [object |-> objs[i],
        neighbors |-> SelectSeq(objs,
            LAMBDA o : o # objs[i] /\
                       LengthAtMost(VSub(h[objs[i]].pos, h[o].pos), MaxNeighborDistance)),
        lastUpdateFrame |-> frame]]

\* PhysicsEngine::willCollideInTimeframe(a, b, 0.1f) over predictCollisionTime:
\* with P, V the relative position and velocity and R the sum of the bounding
\* radii, the root of (V.V)t^2 + 2(P.V)t + (P.P - R^2) = 0 that
\* predictCollisionTime returns lies in [0, 0.1].  V = 0 divides 0 by 0: the
\* NaN compares false.  Whole world units, so that the squares stay small
WillCollide(a, b) ==
    LET P == Vec(TDiv(b.pos[1] - a.pos[1], Scale), TDiv(b.pos[2] - a.pos[2], Scale))
        V == Vec(TDiv(b.vel[1] - a.vel[1], Scale), TDiv(b.vel[2] - a.vel[2], Scale))
        R == TDiv(GetBoundingRadius(a) + GetBoundingRadius(b), Scale)
        aa == Dot(V, V)
        pv == Dot(P, V)
        cc == Dot(P, P) - R * R
        quarter == pv * pv - aa * cc
        firstRoot == pv <= 0 /\ cc >= 0
    IN /\ aa # 0
       /\ quarter >= 0
       /\ IF firstRoot
          THEN \/ -10 * pv - aa <= 0
               \/ 100 * quarter >= (-10 * pv - aa) * (-10 * pv - aa)
          ELSE /\ pv <= 0 \/ cc <= 0
               /\ 10 * pv + aa >= 0
               /\ 100 * quarter <= (10 * pv + aa) * (10 * pv + aa)

\* the (object, neighbor) pairs predictCollisions evaluates, in its order
PredictionCandidates(tracking) ==
    Flatten([i \in DOMAIN tracking |->
               IF Len(tracking[i].neighbors) > 3
               THEN [k \in DOMAIN tracking[i].neighbors |->
                       <<tracking[i].object, tracking[i].neighbors[k]>>]
               ELSE <<>>])

-----------------------------------------------------------------------------
(* Narrow phase and resolution (physics_engine.cpp, shapes.cpp) *)

\* a unit vector is held in thousandths
NormScale == 1000

NoContact == [hit |-> FALSE, normal |-> Vec(0, 0), penetration |-> 0]

\* glm::normalize(d), for a d whose length is not 0
Normalize(d) ==
    LET len == ISqrt(Dot(d, d))
    IN Vec(TDiv(d[1] * NormScale, len), TDiv(d[2] * NormScale, len))

\* checkCollision, two circles, as it would be if circles that touch collided
CheckCircleCircleTouching(a, b) ==
    LET diff == VSub(b.pos, a.pos)
        radiusSum == a.radius + b.radius
    IN IF LengthAtMost(diff, radiusSum)
       THEN IF diff = Vec(0, 0)
            THEN [hit |-> TRUE, normal |-> Vec(NormScale, 0), penetration |-> radiusSum]
            ELSE [hit |-> TRUE, normal |-> Normalize(diff),
                  penetration |-> radiusSum - ISqrt(Dot(diff, diff))]
       ELSE NoContact

\* checkCollision, two circles.  A distance under 0.001 is a distance of 0
\* at the resolution of the model
CheckCircleCircle(a, b) ==
    LET diff == VSub(b.pos, a.pos)
        radiusSum == a.radius + b.radius
    IN IF LengthLess(diff, radiusSum)
       THEN IF diff = Vec(0, 0)
            THEN [hit |-> TRUE, normal |-> Vec(NormScale, 0), penetration |-> radiusSum]
            ELSE [hit |-> TRUE, normal |-> Normalize(diff),
                  penetration |-> radiusSum - ISqrt(Dot(diff, diff))]
       ELSE NoContact

\* checkCollision, two rectangles
CheckRectRect(a, b) ==
    LET boxA == GetBoundingBox(a)
        boxB == GetBoundingBox(b)
        overlapX == Min(boxA.max[1] - boxB.min[1], boxB.max[1] - boxA.min[1])
        overlapY == Min(boxA.max[2] - boxB.min[2], boxB.max[2] - boxA.min[2])
    IN IF overlapX > 0 /\ overlapY > 0
       THEN IF overlapX < overlapY
            THEN [hit |-> TRUE,
                  normal |-> Vec(IF boxA.max[1] < boxB.max[1] THEN -NormScale ELSE NormScale, 0),
                  penetration |-> overlapX]
            ELSE [hit |-> TRUE,
                  normal |-> Vec(0, IF boxA.max[2] < boxB.max[2] THEN -NormScale ELSE NormScale),
                  penetration |-> overlapY]
       ELSE NoContact

\* checkCollision, a circle and a rectangle in either order
CheckCircleRect(circle, rect) ==
    LET closest ==
            Vec(Max(rect.pos[1] - TDiv(rect.width, 2),
                    Min(circle.pos[1], rect.pos[1] + TDiv(rect.width, 2))),
                Max(rect.pos[2] - TDiv(rect.height, 2),
                    Min(circle.pos[2], rect.pos[2] + TDiv(rect.height, 2))))
        diff == VSub(circle.pos, closest)
    IN IF LengthLess(diff, circle.radius)
       THEN IF diff = Vec(0, 0)
            THEN [hit |-> TRUE, normal |-> Vec(NormScale, 0), penetration |-> circle.radius]
            ELSE [hit |-> TRUE, normal |-> Normalize(diff),
                  penetration |-> circle.radius - ISqrt(Dot(diff, diff))]
       ELSE NoContact

\* PhysicsEngine::checkCollision: no branch takes a pair with a triangle
CheckCollision(a, b) ==
    CASE a.type = "CIRCLE" /\ b.type = "CIRCLE" -> CheckCircleCircle(a, b)
      [] a.type = "RECTANGLE" /\ b.type = "RECTANGLE" -> CheckRectRect(a, b)
      [] a.type = "CIRCLE" /\ b.type = "RECTANGLE" -> CheckCircleRect(a, b)
      [] a.type = "RECTANGLE" /\ b.type = "CIRCLE" -> CheckCircleRect(b, a)
      [] OTHER -> NoContact

\* the detection loops of processCollisionsMultiThreaded: each pair tested
\* once, in order; the result of the test of each pair
TestPairs(pairs, h) ==
    [k \in DOMAIN pairs |->
       LET r == CheckCollision(h[pairs[k][1]], h[pairs[k][2]])
       IN [shapeA |-> pairs[k][1], shapeB |-> pairs[k][2], hit |-> r.hit,
           normal |-> r.normal, penetration |-> r.penetration]]

\* the CollisionInfo list the loops collect
Contacts(results) ==
    LET hits == SelectSeq(results, LAMBDA r : r.hit)
    IN [k \in DOMAIN hits |->
          [shapeA |-> hits[k].shapeA, shapeB |-> hits[k].shapeB,
           normal |-> hits[k].normal, penetration |-> hits[k].penetration]]

\* the guard as it would be if it skipped only a pair of static bodies
SkipsWhenBothStatic(a, b) == a.isStatic /\ b.isStatic

\* the guard as it would be if it skipped nothing
SkipsNothing(a, b) == FALSE

\* Shape::resolveCollision's guard, the one resolveCollisions reaches through
\* a Shape*: nothing is done when either body is static
SkipsImpulse(a, b) == a.isStatic \/ b.isStatic

\* Shape::resolveCollision as it would be without j /= 1/mA + 1/mB
ResolveCollisionUndivided(a, b, normal) ==
    LET relativeVel == VSub(b.vel, a.vel)
        velAlongNormal == TDiv(Dot(relativeVel, normal), NormScale)
        restitution == Min(a.restitution, b.restitution)
        j == TDiv(-(100 + restitution) * velAlongNormal, 100)
        impulse == Vec(TDiv(j * normal[1], NormScale), TDiv(j * normal[2], NormScale))
    IN IF SkipsImpulse(a, b) \/ velAlongNormal > 0
          \/ a.mass = 0 \/ b.mass = 0 \/ a.mass + b.mass = 0
       THEN <<a.vel, b.vel>>
       ELSE << VSub(a.vel, Vec(TDiv(impulse[1], a.mass), TDiv(impulse[2], a.mass))),
               VAdd(b.vel, Vec(TDiv(impulse[1], b.mass), TDiv(impulse[2], b.mass))) >>

\* Shape::resolveCollision, called on body a with other = b: the velocities
\* of the two afterwards.  A non-static body of mass 0 makes the float
\* impulse 0/0; the model then leaves the velocities alone
ResolveCollision(a, b, normal) ==
    LET relativeVel == VSub(b.vel, a.vel)
        velAlongNormal == TDiv(Dot(relativeVel, normal), NormScale)
        restitution == Min(a.restitution, b.restitution)
        j == TDiv(-(100 + restitution) * velAlongNormal * a.mass * b.mass,
                  100 * (a.mass + b.mass))
        impulse == Vec(TDiv(j * normal[1], NormScale), TDiv(j * normal[2], NormScale))
    IN IF SkipsImpulse(a, b) \/ velAlongNormal > 0
          \/ a.mass = 0 \/ b.mass = 0 \/ a.mass + b.mass = 0
       THEN <<a.vel, b.vel>>
       ELSE << VSub(a.vel, Vec(TDiv(impulse[1], a.mass), TDiv(impulse[2], a.mass))),
               VAdd(b.vel, Vec(TDiv(impulse[1], b.mass), TDiv(impulse[2], b.mass))) >>

\* resolveCollisions: const float slop = 0.05f
Slop == 5

\* resolveCollisions: const float percent = 0.2f, in hundredths
Percent == 20

\* resolveCollisions: if (totalMass == 0) continue
SkipsCorrection(a, b) == a.mass + b.mass = 0

\* the positional correction of resolveCollisions: the positions of the two
\* bodies afterwards
PositionalCorrection(a, b, normal, penetration) ==
    LET pen == Max(penetration - Slop, 0)
        totalMass == a.mass + b.mass
        Shift(m) == Vec(TDiv(pen * Percent * normal[1] * m,
                             100 * NormScale * totalMass * totalMass),
                        TDiv(pen * Percent * normal[2] * m,
                             100 * NormScale * totalMass * totalMass))
    IN IF SkipsCorrection(a, b) THEN <<a.pos, b.pos>>
       ELSE << IF a.isStatic THEN a.pos ELSE VSub(a.pos, Shift(b.mass)),
               IF b.isStatic THEN b.pos ELSE VAdd(b.pos, Shift(a.mass)) >>

\* whether resolving the contact divides by a mass sum or an inverse-mass
\* sum that is 0, or takes the inverse of a mass that is 0: in the impulse
\* (j /= 1/mA + 1/mB) or in the correction (penetration / totalMass)
DividesByZero(a, b, normal) ==
    LET velAlongNormal == TDiv(Dot(VSub(b.vel, a.vel), normal), NormScale)
    IN \/ /\ ~SkipsImpulse(a, b)
          /\ velAlongNormal <= 0
          /\ a.mass = 0 \/ b.mass = 0 \/ a.mass + b.mass = 0
       \/ /\ ~SkipsCorrection(a, b)
          /\ a.mass + b.mass = 0

\* one iteration of the loop of resolveCollisions on the heap h
ResolveOne(h, c) ==
    LET a == h[c.shapeA]
        b == h[c.shapeB]
        v == ResolveCollision(a, b, c.normal)
        a1 == [a EXCEPT !.vel = v[1]]
        b1 == [b EXCEPT !.vel = v[2]]
        p == PositionalCorrection(a1, b1, c.normal, c.penetration)
    IN [h EXCEPT ![c.shapeA] = [a1 EXCEPT !.pos = p[1]],
                 ![c.shapeB] = [b1 EXCEPT !.pos = p[2]]]

\* PhysicsEngine::resolveCollisions: the contacts one after the other, each
\* on the heap the one before it has left
RECURSIVE ResolveAll(_, _)
ResolveAll(h, cs) ==
    IF cs = <<>> THEN h
    ELSE LET next == ResolveOne(h, Head(cs))
         IN IF next = h THEN ResolveAll(h, Tail(cs)) ELSE ResolveAll(next, Tail(cs))

-----------------------------------------------------------------------------
(* PhysicsEngine: construction and the body collection *)

\* the limit of the direct all-pairs path: objects.size() <= 200
DirectPairLimit == 200

\* what the heap holds for each address of objs, given the bodies in order
HeapOf(objs, bodies) == [a \in Range(objs) |-> bodies[CHOOSE i \in DOMAIN objs : objs[i] = a]]

\* PhysicsEngine::PhysicsEngine(width, height), then the addShape calls that
\* put `bodies` at the addresses 1, 2, ... and setGravity(gravity); `small`
\* is the limit of the direct path
Constructed(width, height, bodies, gravity, small) ==
    /\ shapes = [i \in DOMAIN bodies |-> i]
    /\ heap = HeapOf([i \in DOMAIN bodies |-> i], bodies)
    /\ heapTop = Len(bodies)
    /\ selectedShape = NULL
    /\ mousePressed = FALSE
    /\ worldGravity = gravity
    /\ worldBounds = Vec(width * Scale, height * Scale)
    /\ currentFrame = 0
    /\ collisionChecksThisFrame = 0
    /\ actualCollisionsThisFrame = 0
    /\ quadtree = QuadtreeNode(Vec(TDiv(width * Scale, 2), TDiv(height * Scale, 2)),
                               width * Scale, height * Scale, 0)
    /\ potentialPairs = <<>>
    /\ spatialGrid = UpdateSpatialPartitioning(<<>>, <<>>, Vec(width * Scale, height * Scale), 0)
    /\ neighborTracking = <<>>
    /\ collisionPredictions = <<>>
    /\ collisions = <<>>
    /\ smallCount = small
    /\ useMultiThreading = FALSE
    /\ threadCount = 4
    /\ workers = <<>>
    /\ pc = "idle"
    /\ ub = "none"
    /\ clock = 0
    /\ stamp = [i \in DOMAIN bodies |-> i]
    /\ added = Len(bodies)
    /\ mouseEvents = <<>>
    /\ mousePosition = Vec(0, 0)
    /\ refsRead = {}
    /\ phaseLog = <<>>
    /\ tested = <<>>

\* main() before its loop has run
MainIdle ==
    /\ accumulator = 0
    /\ mainpc = "frame"
    /\ stepsThisFrame = 0

\* PhysicsEngine: worldGravity(0.0f, 981.0f)
DefaultGravity == Vec(0, 981 * Scale)

\* the state after PhysicsEngine(WorldWidth, WorldHeight)
Init ==
    /\ Constructed(WorldWidth, WorldHeight, <<>>, DefaultGravity, DirectPairLimit)
    /\ MainIdle

\* the bodies a caller hands to addShape: a circle that falls and a static
\* rectangle that overlaps it
Catalog ==
    { Circle(Vec(100 * Scale, 100 * Scale), 30 * Scale),
      [Rectangle(Vec(120 * Scale, 100 * Scale), 60 * Scale, 40 * Scale)
          EXCEPT !.isStatic = TRUE] }

\* addShape calls in one behaviour
MaxAdds == 2

\* removeShape as it would be if it erased nothing
EraseNothing(objs, a) == objs

\* std::remove_if and erase: the elements that are not `a`, order kept
EraseShape(objs, a) == SelectSeq(objs, LAMBDA o : o # a)

\* the addresses the allocator can give a new body: one that was freed, or
\* the next one that never held a body
FreeAddr == {a \in Addr : a <= heapTop + 1} \ Live

\* PhysicsEngine::addShape of a newly made body, one of `bodies`
AddShapeOf(bodies) ==
    /\ pc = "idle" /\ ub # "crashed"
    /\ added < MaxAdds
    /\ \E a \in FreeAddr, body \in bodies :
          /\ shapes' = Append(shapes, a)
          /\ heapTop' = Max(heapTop, a)
          /\ heap' = [x \in Live \cup {a} |-> IF x = a THEN body ELSE heap[x]]
          /\ stamp' = [x \in DOMAIN stamp \cup {a} |-> IF x = a THEN added + 1 ELSE stamp[x]]
    /\ added' = added + 1
    /\ UNCHANGED << selectedShape, mousePressed, worldGravity, worldBounds,
                    currentFrame, collisionChecksThisFrame, actualCollisionsThisFrame,
                    quadtree, potentialPairs, spatialGrid, neighborTracking,
                    collisionPredictions, collisions, smallCount, pc, ub, clock,
                    mainVars, mouseEvents, mousePosition, threadVars, refsRead, phaseLog, tested >>

\* addShape of a body of the catalog
AddShape == AddShapeOf(Catalog)

\* PhysicsEngine::removeShape(a), for any pointer value a: the erased
\* unique_ptr deletes the body
RemoveShape ==
    /\ pc = "idle" /\ ub # "crashed"
    /\ \E a \in Addr \cup Live :
          /\ shapes' = EraseShape(shapes, a)
          /\ heap' = [x \in Range(EraseShape(shapes, a)) |-> heap[x]]
          /\ stamp' = [x \in DOMAIN stamp \ {a} |-> stamp[x]]
    /\ UNCHANGED << heapTop, selectedShape, mousePressed, worldGravity, worldBounds,
                    currentFrame, collisionChecksThisFrame, actualCollisionsThisFrame,
                    quadtree, potentialPairs, spatialGrid, neighborTracking,
                    collisionPredictions, collisions, smallCount, pc, ub, clock,
                    mainVars, added, mouseEvents, mousePosition, threadVars, refsRead, phaseLog, tested >>

\* PhysicsEngine::clearShapes
ClearShapes ==
    /\ pc = "idle" /\ ub # "crashed"
    /\ shapes' = <<>>
    /\ heap' = <<>>
    /\ selectedShape' = NULL
    /\ spatialGrid' = <<>>
    /\ neighborTracking' = <<>>
    /\ collisionPredictions' = <<>>
    /\ stamp' = <<>>
    /\ UNCHANGED << heapTop, mousePressed, worldGravity, worldBounds,
                    currentFrame, collisionChecksThisFrame, actualCollisionsThisFrame,
                    quadtree, potentialPairs, collisions, smallCount, pc, ub, clock,
                    mainVars, added, mouseEvents, mousePosition, threadVars, refsRead, phaseLog, tested >>

-----------------------------------------------------------------------------
(* PhysicsEngine: the mouse *)

\* Shape::DRAG_HISTORY_SIZE
DRAG_HISTORY_SIZE == 5

\* calls of the mouse handlers in one behaviour
MaxMouseEvents == 2

\* ticks of the clock between two mouse events: none, the 0.0001 s of
\* endDrag's guard, or a tenth of a second
Delays == {0, 1, 1000}

\* the same when every mouse event comes a tenth of a second after the one
\* before it
SteadyDelays == {1000}

\* where the mouse is when an event arrives: on the circle and the rectangle
\* of the catalog, on nothing
Points == { Vec(100 * Scale, 100 * Scale), Vec(250 * Scale, 150 * Scale) }

\* Shape::startDrag at time now
StartDrag(s, mousePos, now) ==
    [s EXCEPT !.isDragging = TRUE,
              !.dragOffset = VSub(mousePos, s.pos),
              !.vel = Vec(0, 0),
              !.angularVelocity = 0,
              !.dragHistory = << <<mousePos, now>> >>]

\* updateDrag as it would be without the pop_front that bounds the history
UpdateDragUnbounded(s, mousePos, now) ==
    IF s.isDragging
    THEN [s EXCEPT !.pos = VSub(mousePos, s.dragOffset),
                   !.dragHistory = Append(s.dragHistory, <<mousePos, now>>)]
    ELSE s

\* Shape::updateDrag at time now
UpdateDrag(s, mousePos, now) ==
    IF s.isDragging
    THEN LET pushed == Append(s.dragHistory, <<mousePos, now>>)
         IN [s EXCEPT !.pos = VSub(mousePos, s.dragOffset),
                      !.dragHistory = IF Len(pushed) > DRAG_HISTORY_SIZE
                                      THEN Tail(pushed) ELSE pushed]
    ELSE s

\* Shape::endDrag as it would be if it took the first point of the history
\* for the one before the last
EndDragFromFirst(s) ==
    LET n == Len(s.dragHistory)
        last == s.dragHistory[n]
        prev == s.dragHistory[1]
        ticks == last[2] - prev[2]
        moved == VSub(last[1], prev[1])
        stopped == [s EXCEPT !.isDragging = FALSE, !.dragHistory = <<>>]
    IN IF n >= 2 /\ ticks > 1
       THEN [stopped EXCEPT !.vel = Vec(TDiv(moved[1] * 10000, ticks),
                                        TDiv(moved[2] * 10000, ticks))]
       ELSE stopped

\* Shape::endDrag: the velocity is that of the last two points of the
\* history when more than 0.0001 s, one tick, lies between them
EndDrag(s) ==
    LET n == Len(s.dragHistory)
        last == s.dragHistory[n]
        prev == s.dragHistory[n - 1]
        ticks == last[2] - prev[2]
        moved == VSub(last[1], prev[1])
        stopped == [s EXCEPT !.isDragging = FALSE, !.dragHistory = <<>>]
    IN IF n >= 2 /\ ticks > 1
       THEN [stopped EXCEPT !.vel = Vec(TDiv(moved[1] * 10000, ticks),
                                        TDiv(moved[2] * 10000, ticks))]
       ELSE stopped

\* the loop of handleMousePress as it would be without its break: the last
\* body of shapes that contains the point, or NULL
LastShapeUnder(objs, h, point) ==
    IF \E i \in DOMAIN objs : ContainsPoint(h[objs[i]], point)
    THEN objs[CHOOSE i \in DOMAIN objs :
                /\ ContainsPoint(h[objs[i]], point)
                /\ \A k \in (i + 1) .. Len(objs) : ~ContainsPoint(h[objs[k]], point)]
    ELSE NULL

\* the loop of handleMousePress: the first body of shapes that contains the
\* point, or NULL
ShapeUnder(objs, h, point) ==
    IF \E i \in DOMAIN objs : ContainsPoint(h[objs[i]], point)
    THEN objs[CHOOSE i \in DOMAIN objs :
                /\ ContainsPoint(h[objs[i]], point)
                /\ \A k \in 1 .. (i - 1) : ~ContainsPoint(h[objs[k]], point)]
    ELSE NULL

\* what the mouse handlers leave alone
MouseUnchanged ==
    UNCHANGED << shapes, heapTop, worldGravity, worldBounds, currentFrame,
                 collisionChecksThisFrame, actualCollisionsThisFrame, quadtree,
                 potentialPairs, spatialGrid, neighborTracking, collisionPredictions,
                 collisions, smallCount, threadVars, pc, mainVars,
                 stamp, added, refsRead, phaseLog, tested >>

\* PhysicsEngine::handleMousePress(mousePos), for mousePos one of `points`,
\* as one of at most `limit` calls of the mouse handlers, one of `delays`
\* ticks after the call before it
MousePress(limit, points, delays) ==
    /\ pc = "idle" /\ ub # "crashed"
    /\ Len(mouseEvents) < limit
    /\ mouseEvents' = Append(mouseEvents, "press")
    /\ \E mousePos \in points, d \in delays :
          /\ clock' = clock + d
          /\ mousePosition' = mousePos
          /\ selectedShape' = ShapeUnder(shapes, heap, mousePos)
          /\ heap' = IF selectedShape' = NULL THEN heap
                     ELSE [heap EXCEPT ![selectedShape'] =
                              StartDrag([@ EXCEPT !.isSelected = TRUE], mousePos, clock')]
    /\ mousePressed' = TRUE
    /\ ub' = ub
    /\ MouseUnchanged

\* PhysicsEngine::handleMouseRelease.  A selectedShape that dangles is
\* written through: the build goes on or crashes
MouseRelease(limit) ==
    /\ pc = "idle" /\ ub # "crashed"
    /\ Len(mouseEvents) < limit
    /\ mouseEvents' = Append(mouseEvents, "release")
    /\ mousePressed' = FALSE
    /\ mousePosition' = mousePosition
    /\ selectedShape' = NULL
    /\ clock' = clock
    /\ IF selectedShape = NULL
       THEN heap' = heap /\ ub' = ub
       ELSE IF Dangling(selectedShape)
            THEN heap' = heap /\ ub' \in {"continued", "crashed"}
            ELSE /\ heap' = [heap EXCEPT ![selectedShape] =
                                EndDrag([@ EXCEPT !.isSelected = FALSE])]
                 /\ ub' = ub
    /\ MouseUnchanged

\* PhysicsEngine::handleMouseMove(mousePos), for mousePos one of `points`
MouseMove(limit, points, delays) ==
    /\ pc = "idle" /\ ub # "crashed"
    /\ Len(mouseEvents) < limit
    /\ mouseEvents' = Append(mouseEvents, "move")
    /\ \E mousePos \in points, d \in delays :
          /\ clock' = clock + d
          /\ mousePosition' = mousePos
          /\ IF mousePressed /\ selectedShape # NULL
             THEN IF Dangling(selectedShape)
                  THEN heap' = heap /\ ub' \in {"continued", "crashed"}
                  ELSE /\ heap' = [heap EXCEPT ![selectedShape] =
                                      UpdateDrag(@, mousePos, clock')]
                       /\ ub' = ub
             ELSE heap' = heap /\ ub' = ub
    /\ UNCHANGED << selectedShape, mousePressed >>
    /\ MouseUnchanged

\* the mouse callbacks of main() on the engine
HandleMousePress == MousePress(MaxMouseEvents, Points, SteadyDelays)

HandleMouseRelease == MouseRelease(MaxMouseEvents)

HandleMouseMove == MouseMove(MaxMouseEvents, Points, SteadyDelays)

-----------------------------------------------------------------------------
(* PhysicsEngine::update *)

\* x * deltaTime, for deltaTime the fraction dt[1] / dt[2] of a second
TimesDt(x, dt) == TDiv(x * dt[1], dt[2])

\* setInternalPosition and setInternalVelocity, which update calls after it
\* has written a body with setPosition and setVelocity. Neither is declared in
\* shapes.h; update's comment says they synchronize the body's own members,
\* which setPosition and setVelocity have already written
SetInternal(s) == s

\* the body of the integration loop of update
IntegrateBody(s, g, dt) ==
    IF s.isStatic THEN s
    ELSE LET gravity == IF s.useGlobalGravity THEN g ELSE Vec(0, s.gravity)
             velocity == VAdd(s.vel, Vec(TimesDt(gravity[1], dt), TimesDt(gravity[2], dt)))
             position == VAdd(s.pos, Vec(TimesDt(velocity[1], dt), TimesDt(velocity[2], dt)))
         IN SetInternal([s EXCEPT !.vel = velocity, !.pos = position])

\* the boundary test as it would be with the bounding diameter for the radius
BoundAxisByDiameter(pos, vel, radius, limit, restitution) ==
    IF pos - 2 * radius < 0 THEN <<radius, TDiv(-vel * restitution, 100)>>
    ELSE IF pos + 2 * radius > limit THEN <<limit - radius, TDiv(-vel * restitution, 100)>>
    ELSE <<pos, vel>>

\* the boundary test as it would be if it put the centre on the edge
BoundAxisToEdge(pos, vel, radius, limit, restitution) ==
    IF pos - radius < 0 THEN <<0, TDiv(-vel * restitution, 100)>>
    ELSE IF pos + radius > limit THEN <<limit, TDiv(-vel * restitution, 100)>>
    ELSE <<pos, vel>>

\* one axis of the boundary loop of update: the coordinate and the velocity
\* along it afterwards
BoundAxis(pos, vel, radius, limit, restitution) ==
    IF pos - radius < 0 THEN <<radius, TDiv(-vel * restitution, 100)>>
    ELSE IF pos + radius > limit THEN <<limit - radius, TDiv(-vel * restitution, 100)>>
    ELSE <<pos, vel>>

\* the body of the boundary loop of update
BoundBody(s, bounds) ==
    IF s.isStatic THEN s
    ELSE LET radius == GetBoundingRadius(s)
             x == BoundAxis(s.pos[1], s.vel[1], radius, bounds[1], s.restitution)
             y == BoundAxis(s.pos[2], s.vel[2], radius, bounds[2], s.restitution)
         IN SetInternal([s EXCEPT !.pos = Vec(x[1], y[1]), !.vel = Vec(x[2], y[2])])

\* update as it would be if resolution came right after prediction
PhaseAfterSkippingDetect(phase) ==
    CASE phase = "integrate" -> "boundary"
      [] phase = "boundary" -> "rebuild"
      [] phase = "rebuild" -> "predict"
      [] phase = "predict" -> "resolve"
      [] OTHER -> "idle"

\* the statements of update in the order they are written: the phase that
\* follows each, "idle" when update returns
PhaseAfter(phase) ==
    CASE phase = "integrate" -> "boundary"
      [] phase = "boundary" -> "rebuild"
      [] phase = "rebuild" -> "predict"
      [] phase = "predict" -> "detect"
      [] phase = "detect" -> "resolve"
      [] OTHER -> "idle"

\* update as it would be without the reset of its counters
KeepCounter(count) == count

\* collisionChecksThisFrame = 0 and actualCollisionsThisFrame = 0
ResetCounter(count) == 0

\* collisionChecksThisFrame++ once for each pair tested
CountChecks(count, results) == count + Len(results)

\* actualCollisionsThisFrame++ once for each test that reports a collision
CountContacts(count, results) == count + Len(SelectSeq(results, LAMBDA r : r.hit))

\* the pairs tested as they would be if the last of them were left for the
\* next update
DetectionPairsButLast(objs, pairs, small) ==
    LET all == IF Len(objs) <= small THEN AllPairs(objs) ELSE pairs
    IN SubSeq(all, 1, Len(all) - 1)

\* the pairs processCollisionsMultiThreaded tests: all of them for up to
\* `small` bodies, those of the broad phase otherwise
DetectionPairs(objs, pairs, small) ==
    IF Len(objs) <= small THEN AllPairs(objs) ELSE pairs

\* the addresses a sequence of pairs names
PairRefs(pairs) == {pairs[k][1] : k \in DOMAIN pairs} \cup {pairs[k][2] : k \in DOMAIN pairs}

\* update(deltaTime) from its first statement to the end of the integration
\* loop; the caller says what becomes of main()'s variables
UpdateBegin(deltaTime) ==
    /\ pc = "idle" /\ ub # "crashed"
    /\ currentFrame' = currentFrame + 1
    /\ collisionChecksThisFrame' = ResetCounter(collisionChecksThisFrame)
    /\ actualCollisionsThisFrame' = ResetCounter(actualCollisionsThisFrame)
    /\ heap' = [a \in DOMAIN heap |-> IntegrateBody(heap[a], worldGravity, deltaTime)]
    /\ pc' = PhaseAfter("integrate")
    /\ refsRead' = {}
    /\ tested' = <<>>
    /\ phaseLog' = <<"integrate">>
    /\ UNCHANGED << shapes, heapTop, selectedShape, mousePressed, worldGravity, worldBounds,
                    quadtree, potentialPairs, spatialGrid, neighborTracking,
                    collisionPredictions, collisions, smallCount, ub, clock,
                    stamp, added, mouseEvents, mousePosition, threadVars >>

\* update: the boundary loop
UpdateBoundary ==
    /\ pc = "boundary" /\ ub # "crashed"
    /\ heap' = [a \in DOMAIN heap |-> BoundBody(heap[a], worldBounds)]
    /\ pc' = PhaseAfter("boundary")
    /\ phaseLog' = Append(phaseLog, "boundary")
    /\ UNCHANGED << shapes, heapTop, selectedShape, mousePressed, worldGravity, worldBounds,
                    currentFrame, collisionChecksThisFrame, actualCollisionsThisFrame,
                    quadtree, potentialPairs, spatialGrid, neighborTracking,
                    collisionPredictions, collisions, smallCount, ub, clock,
                    mainVars, stamp, added, mouseEvents, mousePosition, threadVars, refsRead, tested >>

\* update: updateQuadtree, updateBroadPhase, and on their frames
\* updateSpatialPartitioning and updateNeighborTracking.  updateLOD writes
\* a field of the bodies that nothing reads
UpdateRebuild ==
    /\ pc = "rebuild" /\ ub # "crashed"
    /\ quadtree' = UpdateQuadtree(quadtree, shapes, heap)
    /\ potentialPairs' = BroadPhaseUpdate(shapes, heap, smallCount)
    /\ spatialGrid' = IF currentFrame % SpatialUpdateInterval = 0
                      THEN UpdateSpatialPartitioning(shapes, heap, worldBounds, currentFrame)
                      ELSE spatialGrid
    /\ neighborTracking' = IF currentFrame % NeighborUpdateInterval = 0
                           THEN UpdateNeighborTracking(shapes, heap, currentFrame)
                           ELSE neighborTracking
    /\ pc' = PhaseAfter("rebuild")
    /\ phaseLog' = Append(phaseLog, "rebuild")
    /\ refsRead' = refsRead \cup Range(shapes)
    /\ UNCHANGED << shapes, heap, heapTop, selectedShape, mousePressed, worldGravity, worldBounds,
                    currentFrame, collisionChecksThisFrame, actualCollisionsThisFrame,
                    collisionPredictions, collisions, smallCount, ub, clock,
                    mainVars, stamp, added, mouseEvents, mousePosition, threadVars, tested >>


\* update: predictCollisions follows every pointer of every cache entry that
\* has more than three neighbors.  Following a pointer that dangles reads
\* what the freed body left behind: the build goes on with a prediction
\* made or not made of it, or crashes
UpdatePredict ==
    /\ pc = "predict" /\ ub # "crashed"
    /\ LET candidates == PredictionCandidates(neighborTracking)
           valid(c) == ~Dangling(c[1]) /\ ~Dangling(c[2])
       IN /\ refsRead' = refsRead \cup PairRefs(candidates)
          /\ IF \A k \in DOMAIN candidates : valid(candidates[k])
             THEN /\ collisionPredictions' =
                        SelectSeq(candidates, LAMBDA c : WillCollide(heap[c[1]], heap[c[2]]))
                  /\ ub' = ub
             ELSE \E garbage \in BOOLEAN :
                     /\ collisionPredictions' =
                           SelectSeq(candidates,
                               LAMBDA c : IF valid(c) THEN WillCollide(heap[c[1]], heap[c[2]])
                                          ELSE garbage)
                     /\ ub' \in {"continued", "crashed"}
    /\ pc' = PhaseAfter("predict")
    /\ phaseLog' = Append(phaseLog, "predict")
    /\ UNCHANGED << shapes, heap, heapTop, selectedShape, mousePressed, worldGravity, worldBounds,
                    currentFrame, collisionChecksThisFrame, actualCollisionsThisFrame,
                    quadtree, potentialPairs, spatialGrid, neighborTracking,
                    collisions, smallCount, clock, mainVars, stamp, added, mouseEvents, mousePosition, threadVars, tested >>

\* the branch of processCollisionsMultiThreaded that starts threads is taken
\* with more bodies than the direct path takes, useMultiThreading and
\* threadCount > 1
MultiThreaded == Len(shapes) > smallCount /\ useMultiThreading /\ threadCount > 1

\* size_t pairsPerThread = potentialPairs.size() / threadCount
PairsPerThread(count, threads) == count \div threads

\* size_t start = i * pairsPerThread, for the i-th of the threads counted
\* from 1
RangeStart(i, count, threads) == (i - 1) * PairsPerThread(count, threads)

\* the end of a range as it would be without the case of the last thread
RangeEndEven(i, count, threads) == i * PairsPerThread(count, threads)

\* size_t end = (i == threadCount - 1) ? potentialPairs.size()
\*                                     : (i + 1) * pairsPerThread
RangeEnd(i, count, threads) ==
    IF i = threads THEN count ELSE i * PairsPerThread(count, threads)

\* a thread of collisionThreads as it is started: its captures start and
\* end, its loop variable j (next), where it is in the loop body (at), the
\* counter value it has loaded (reg), its threadCollisions[i] (found)
StartedThread(i, count, threads) ==
    [ start |-> RangeStart(i, count, threads), end |-> RangeEnd(i, count, threads),
      next |-> RangeStart(i, count, threads), at |-> "loop", reg |-> 0, found |-> <<>> ]

\* the thread has left its loop
Finished(w) == w.at = "loop" /\ w.next >= w.end

\* what a step of the threads leaves alone
ThreadUnchanged ==
    UNCHANGED << shapes, heap, heapTop, selectedShape, mousePressed, worldGravity, worldBounds,
                 currentFrame, quadtree, potentialPairs, spatialGrid, neighborTracking,
                 collisionPredictions, smallCount, useMultiThreading, threadCount,
                 ub, clock, mainVars, stamp, added, mouseEvents, mousePosition >>

\* update: processCollisionsMultiThreaded starts its threads
DetectSpawn ==
    /\ pc = "detect" /\ ub # "crashed"
    /\ MultiThreaded
    /\ workers' = [i \in 1 .. threadCount |->
                     StartedThread(i, Len(potentialPairs), threadCount)]
    /\ pc' = "join"
    /\ UNCHANGED << collisionChecksThisFrame, actualCollisionsThisFrame, collisions,
                    refsRead, phaseLog, tested >>
    /\ ThreadUnchanged

\* thread i: collisionChecksThisFrame++ on a plain int that the other
\* threads write too, a data race; the load
WorkerLoadChecks(i) ==
    /\ pc = "join"
    /\ workers[i].at = "loop" /\ workers[i].next < workers[i].end
    /\ workers' = [workers EXCEPT ![i].reg = collisionChecksThisFrame, ![i].at = "checks"]
    /\ UNCHANGED << collisionChecksThisFrame, actualCollisionsThisFrame, collisions,
                    pc, refsRead, phaseLog, tested >>
    /\ ThreadUnchanged

\* thread i: the store of collisionChecksThisFrame++, then checkCollision of
\* potentialPairs[j]
WorkerTest(i) ==
    /\ pc = "join"
    /\ workers[i].at = "checks"
    /\ LET pair == potentialPairs[workers[i].next + 1]
           r == CheckCollision(heap[pair[1]], heap[pair[2]])
       IN /\ collisionChecksThisFrame' = workers[i].reg + 1
          /\ tested' = Append(tested, [shapeA |-> pair[1], shapeB |-> pair[2], hit |-> r.hit,
                                       normal |-> r.normal, penetration |-> r.penetration])
          /\ refsRead' = refsRead \cup {pair[1], pair[2]}
          /\ workers' = IF r.hit
                        THEN [workers EXCEPT ![i].at = "hit"]
                        ELSE [workers EXCEPT ![i].at = "loop", ![i].next = @ + 1]
    /\ UNCHANGED << actualCollisionsThisFrame, collisions, pc, phaseLog >>
    /\ ThreadUnchanged

\* thread i: actualCollisionsThisFrame++, the load
WorkerLoadContacts(i) ==
    /\ pc = "join"
    /\ workers[i].at = "hit"
    /\ workers' = [workers EXCEPT ![i].reg = actualCollisionsThisFrame, ![i].at = "contacts"]
    /\ UNCHANGED << collisionChecksThisFrame, actualCollisionsThisFrame, collisions,
                    pc, refsRead, phaseLog, tested >>
    /\ ThreadUnchanged

\* thread i: the store of actualCollisionsThisFrame++, then
\* threadCollisions[i].emplace_back and ++j
WorkerCollect(i) ==
    /\ pc = "join"
    /\ workers[i].at = "contacts"
    /\ LET pair == potentialPairs[workers[i].next + 1]
           r == CheckCollision(heap[pair[1]], heap[pair[2]])
       IN /\ actualCollisionsThisFrame' = workers[i].reg + 1
          /\ workers' = [workers EXCEPT
                           ![i].found = Append(@, [shapeA |-> pair[1], shapeB |-> pair[2],
                                                   normal |-> r.normal,
                                                   penetration |-> r.penetration]),
                           ![i].at = "loop", ![i].next = @ + 1]
    /\ UNCHANGED << collisionChecksThisFrame, collisions, pc, refsRead, phaseLog, tested >>
    /\ ThreadUnchanged

\* a step of one of the threads
WorkerStep ==
    \E i \in DOMAIN workers :
       \/ WorkerLoadChecks(i)
       \/ WorkerTest(i)
       \/ WorkerLoadContacts(i)
       \/ WorkerCollect(i)

\* update: every thread is joined, then collisions is cleared and filled
\* with the threadCollisions, in the order of the threads
DetectJoin ==
    /\ pc = "join"
    /\ \A i \in DOMAIN workers : Finished(workers[i])
    /\ collisions' = Flatten([i \in DOMAIN workers |-> workers[i].found])
    /\ workers' = <<>>
    /\ pc' = PhaseAfter("detect")
    /\ phaseLog' = Append(phaseLog, "detect")
    /\ UNCHANGED << collisionChecksThisFrame, actualCollisionsThisFrame, refsRead, tested >>
    /\ ThreadUnchanged

\* what the setters of the threading fields leave alone
SetterUnchanged ==
    UNCHANGED << shapes, heap, heapTop, selectedShape, mousePressed, mousePosition,
                 worldGravity, worldBounds, currentFrame, collisionChecksThisFrame,
                 actualCollisionsThisFrame, quadtree, potentialPairs, spatialGrid,
                 neighborTracking, collisionPredictions, collisions, smallCount,
                 workers, pc, ub, clock, mainVars, historyVars >>

\* setMultiThreading(enabled)
SetMultiThreading ==
    /\ pc = "idle" /\ ub # "crashed"
    /\ \E enabled \in BOOLEAN : useMultiThreading' = enabled
    /\ threadCount' = threadCount
    /\ SetterUnchanged

\* the largest count setThreadCount is called with
MaxThreads == 4

\* setThreadCount(count)
SetThreadCount ==
    /\ pc = "idle" /\ ub # "crashed"
    /\ \E count \in 0 .. MaxThreads : threadCount' = count
    /\ useMultiThreading' = useMultiThreading
    /\ SetterUnchanged

\* update: the detection loops of processCollisionsMultiThreaded on the one
\* thread of update, as the engine is constructed
UpdateDetect ==
    /\ pc = "detect" /\ ub # "crashed"
    /\ ~MultiThreaded
    /\ LET pairs == DetectionPairs(shapes, potentialPairs, smallCount)
           results == TestPairs(pairs, heap)
       IN /\ collisionChecksThisFrame' = CountChecks(collisionChecksThisFrame, results)
          /\ actualCollisionsThisFrame' = CountContacts(actualCollisionsThisFrame, results)
          /\ collisions' = Contacts(results)
          /\ tested' = results
          /\ refsRead' = refsRead \cup PairRefs(pairs)
    /\ pc' = PhaseAfter("detect")
    /\ phaseLog' = Append(phaseLog, "detect")
    /\ UNCHANGED << shapes, heap, heapTop, selectedShape, mousePressed, worldGravity, worldBounds,
                    currentFrame, quadtree, potentialPairs, spatialGrid, neighborTracking,
                    collisionPredictions, smallCount, ub, clock, mainVars, stamp, added, mouseEvents, mousePosition, threadVars >>

\* update: resolveCollisions, and the return
UpdateResolve ==
    /\ pc = "resolve" /\ ub # "crashed"
    /\ heap' = ResolveAll(heap, collisions)
    /\ pc' = PhaseAfter("resolve")
    /\ phaseLog' = Append(phaseLog, "resolve")
    /\ UNCHANGED << shapes, heapTop, selectedShape, mousePressed, worldGravity, worldBounds,
                    currentFrame, collisionChecksThisFrame, actualCollisionsThisFrame,
                    quadtree, potentialPairs, spatialGrid, neighborTracking,
                    collisionPredictions, collisions, smallCount, ub, clock,
                    mainVars, stamp, added, mouseEvents, mousePosition, threadVars, refsRead, tested >>

\* const float fixedTimeStep = 1.0f / 120.0f, as the deltaTime of update
FixedTimeStep == <<1, 120>>

\* a call of update(fixedTimeStep) on the engine, whenever it is idle
Update ==
    /\ currentFrame < MaxFrames
    /\ UpdateBegin(FixedTimeStep)
    /\ UNCHANGED mainVars

-----------------------------------------------------------------------------
(* The engine under its callers: bodies added and removed, the mouse, update *)

Next ==
    \/ AddShape
    \/ RemoveShape
    \/ ClearShapes
    \/ HandleMousePress
    \/ HandleMouseMove
    \/ HandleMouseRelease
    \/ Update
    \/ UpdateBoundary
    \/ UpdateRebuild
    \/ UpdatePredict
    \/ UpdateDetect
    \/ UpdateResolve

Spec == Init /\ [][Next]_vars


-----------------------------------------------------------------------------
(* update() on a scene: two bodies that overlap, or one body alone *)

\* update() calls on a scene
MaxStepFrames == 3

ZeroGravity == Vec(0, 0)

\* a body of each kind at a position
Kinds(pos) ==
    { Circle(pos, 30 * Scale), Rectangle(pos, 60 * Scale, 40 * Scale),
      Triangle(pos, 60 * Scale) }

\* what setMass, setVelocity and the isStatic flag make of a body: static
\* with mass 0 or 1, at rest or not; non-static with mass 1 at rest, or with
\* mass 2 and a velocity
Variants(body, velocity) ==
    { [body EXCEPT !.isStatic = TRUE, !.mass = 0],
      [body EXCEPT !.isStatic = TRUE],
      [body EXCEPT !.isStatic = TRUE, !.mass = 0, !.vel = velocity],
      body,
      [body EXCEPT !.mass = 2, !.vel = velocity] }

\* two bodies whose bounding boxes overlap, the second to the right of and
\* below the first, their velocities toward each other
PairScenes ==
    { <<a, b>> : a \in UNION {Variants(k, Vec(200 * Scale, 100 * Scale)) :
                              k \in Kinds(Vec(100 * Scale, 100 * Scale))},
                 b \in UNION {Variants(k, Vec(-200 * Scale, -100 * Scale)) :
                              k \in Kinds(Vec(120 * Scale, 110 * Scale))} }

\* where a body alone is put: in the middle of the world, 32 from its left
\* edge, 30 from its left edge, 10 and 5 from its right and bottom edges,
\* outside it to the left and above
RestPositions ==
    { Vec(TDiv(WorldWidth * Scale, 2), TDiv(WorldHeight * Scale, 2)),
      Vec(32 * Scale, TDiv(WorldHeight * Scale, 2)),
      Vec(30 * Scale, TDiv(WorldHeight * Scale, 2)),
      Vec((WorldWidth - 10) * Scale, (WorldHeight - 5) * Scale),
      Vec(-20 * Scale, -40 * Scale) }

\* one non-static body with no gravity of its own, under the world's gravity
\* or its own
SingleScenes ==
    { <<[k EXCEPT !.gravity = 0, !.useGlobalGravity = own]>> :
         k \in UNION {Kinds(pos) : pos \in RestPositions}, own \in BOOLEAN }

\* a circle, a rectangle that overlaps it, and a circle of mass 2 that moves
\* up into both
TripleScenes ==
    { <<a, b, [Circle(Vec(110 * Scale, 130 * Scale), 30 * Scale)
                  EXCEPT !.mass = 2, !.vel = Vec(0, -300 * Scale)]>> :
         a \in Variants(Circle(Vec(100 * Scale, 100 * Scale), 30 * Scale),
                        Vec(200 * Scale, 100 * Scale)),
         b \in Variants(Rectangle(Vec(120 * Scale, 110 * Scale), 60 * Scale, 40 * Scale),
                        Vec(-200 * Scale, -100 * Scale)) }

Scenes == PairScenes \cup SingleScenes \cup TripleScenes \cup {<<>>}

InitStep ==
    /\ \E scene \in Scenes, gravity \in {ZeroGravity, DefaultGravity} :
          Constructed(WorldWidth, WorldHeight, scene, gravity, DirectPairLimit)
    /\ MainIdle

\* a call of update(fixedTimeStep) on the scene
Step ==
    /\ currentFrame < MaxStepFrames
    /\ UpdateBegin(FixedTimeStep)
    /\ UNCHANGED mainVars

NextStep ==
    \/ Step
    \/ UpdateBoundary
    \/ UpdateRebuild
    \/ UpdatePredict
    \/ UpdateDetect
    \/ UpdateResolve

SpecStep == InitStep /\ [][NextStep]_vars


-----------------------------------------------------------------------------
(* update() and removeShape() on a crowd: five bodies near each other, so *)
(* that the neighbor cache has entries predictCollisions looks at         *)

\* update() calls on the crowd: the neighbor cache is first built in the
\* tenth
MaxCacheFrames == 11

\* five circles, each within maxNeighborDistance of the other four
Crowd ==
    << Circle(Vec(100 * Scale, 100 * Scale), 10 * Scale),
       Circle(Vec(130 * Scale, 100 * Scale), 10 * Scale),
       Circle(Vec(160 * Scale, 100 * Scale), 10 * Scale),
       Circle(Vec(100 * Scale, 130 * Scale), 10 * Scale),
       Circle(Vec(130 * Scale, 130 * Scale), 10 * Scale) >>

InitCache ==
    /\ Constructed(WorldWidth, WorldHeight, Crowd, DefaultGravity, DirectPairLimit)
    /\ MainIdle

\* a call of update(fixedTimeStep) on the crowd
StepCache ==
    /\ currentFrame < MaxCacheFrames
    /\ UpdateBegin(FixedTimeStep)
    /\ UNCHANGED mainVars

NextCache ==
    \/ RemoveShape
    \/ StepCache
    \/ UpdateBoundary
    \/ UpdateRebuild
    \/ UpdatePredict
    \/ UpdateDetect
    \/ UpdateResolve

SpecCache == InitCache /\ [][NextCache]_vars

-----------------------------------------------------------------------------
(* update() with the limit of the direct path lowered, so that the grid of *)
(* BroadPhaseDetector::update and the pair list it makes are used          *)

\* the lowered limit: two bodies or more take the grid path
LoweredLimit == 1

\* update() calls on a grid scene
MaxGridFrames == 2

\* where the bodies of a grid scene are: two places 25 apart on either side
\* of a cell border, one two cells away, one on the world's edge
GridPositions ==
    { Vec(95 * Scale, 100 * Scale), Vec(120 * Scale, 100 * Scale),
      Vec(250 * Scale, 150 * Scale), Vec(10 * Scale, 10 * Scale) }

GridBodies == UNION {Kinds(pos) : pos \in GridPositions}

\* static bodies outside the world, where coordinates are negative: a
\* rectangle and a circle that overlap it to the left of the world, a circle
\* over its top left corner
OutsideBodies ==
    { [Rectangle(Vec(-150 * Scale, 90 * Scale), 60 * Scale, 40 * Scale) EXCEPT !.isStatic = TRUE],
      [Circle(Vec(-130 * Scale, 90 * Scale), 30 * Scale) EXCEPT !.isStatic = TRUE],
      [Circle(Vec(-20 * Scale, -20 * Scale), 30 * Scale) EXCEPT !.isStatic = TRUE] }

\* two or three bodies; the third is a small circle in the middle; a body
\* outside the world with one outside or inside it
GridScenes ==
    { <<a, b>> : a \in GridBodies, b \in GridBodies } \cup
    { <<a, b, Circle(Vec(150 * Scale, 100 * Scale), 10 * Scale)>> :
         a \in GridBodies, b \in GridBodies } \cup
    { <<a, b>> : a \in OutsideBodies, b \in OutsideBodies \cup GridBodies }

InitGrid ==
    /\ \E scene \in GridScenes :
          Constructed(WorldWidth, WorldHeight, scene, DefaultGravity, LoweredLimit)
    /\ MainIdle

\* a call of update(fixedTimeStep) on a grid scene
StepGrid ==
    /\ currentFrame < MaxGridFrames
    /\ UpdateBegin(FixedTimeStep)
    /\ UNCHANGED mainVars

NextGrid ==
    \/ StepGrid
    \/ UpdateBoundary
    \/ UpdateRebuild
    \/ UpdatePredict
    \/ UpdateDetect
    \/ UpdateResolve

SpecGrid == InitGrid /\ [][NextGrid]_vars


-----------------------------------------------------------------------------
(* update() on a crowd and a body far from it, on the direct path and on    *)
(* the path of the grid, until predictCollisions has predictions            *)

\* update() calls on the crowd and the far body
MaxSweepFrames == 11

\* a small circle in the top right corner of the world
FarBody == Circle(Vec(250 * Scale, 30 * Scale), 10 * Scale)

\* the crowd and the far body: at rest; the first circle of the crowd moving
\* toward the second; the second overlapping the first
SweepScenes ==
    { Crowd \o <<FarBody>>,
      <<[Crowd[1] EXCEPT !.vel = Vec(60 * Scale, 0)]>> \o Tail(Crowd) \o <<FarBody>>,
      <<Crowd[1], Circle(Vec(115 * Scale, 100 * Scale), 10 * Scale)>>
         \o Tail(Tail(Crowd)) \o <<FarBody>> }

InitSweep ==
    /\ \E scene \in SweepScenes, small \in {LoweredLimit, DirectPairLimit} :
          Constructed(WorldWidth, WorldHeight, scene, DefaultGravity, small)
    /\ MainIdle

\* a call of update(fixedTimeStep) on the crowd and the far body
StepSweep ==
    /\ currentFrame < MaxSweepFrames
    /\ UpdateBegin(FixedTimeStep)
    /\ UNCHANGED mainVars

NextSweep ==
    \/ StepSweep
    \/ UpdateBoundary
    \/ UpdateRebuild
    \/ UpdatePredict
    \/ UpdateDetect
    \/ UpdateResolve

SpecSweep == InitSweep /\ [][NextSweep]_vars

-----------------------------------------------------------------------------
(* update() with the limit of the direct path lowered and the threading     *)
(* fields set by their setters: detection by the threads                    *)

\* update() calls on a scene of the threads
MaxThreadFrames == 2

\* a circle, a rectangle and a circle that overlap each other, and a small
\* circle far from them
ThreadBodies ==
    << Circle(Vec(95 * Scale, 100 * Scale), 30 * Scale),
       Rectangle(Vec(120 * Scale, 100 * Scale), 60 * Scale, 40 * Scale),
       Circle(Vec(130 * Scale, 110 * Scale), 30 * Scale),
       Circle(Vec(250 * Scale, 150 * Scale), 10 * Scale) >>

\* two or three of them, in their order
ThreadScenes ==
    { <<ThreadBodies[i], ThreadBodies[j]>> : i \in 1 .. 3, j \in 2 .. 4 } \cup
    { <<ThreadBodies[1], ThreadBodies[2], ThreadBodies[k]>> : k \in 3 .. 4 } \cup
    { <<ThreadBodies[3], ThreadBodies[1], ThreadBodies[2]>> }

InitThreads ==
    /\ \E scene \in ThreadScenes :
          Constructed(WorldWidth, WorldHeight, scene, DefaultGravity, LoweredLimit)
    /\ MainIdle

\* a call of update(fixedTimeStep) on a scene of the threads
StepThreads ==
    /\ currentFrame < MaxThreadFrames
    /\ UpdateBegin(FixedTimeStep)
    /\ UNCHANGED mainVars

NextThreads ==
    \/ SetMultiThreading
    \/ SetThreadCount
    \/ StepThreads
    \/ UpdateBoundary
    \/ UpdateRebuild
    \/ UpdatePredict
    \/ UpdateDetect
    \/ DetectSpawn
    \/ WorkerStep
    \/ DetectJoin
    \/ UpdateResolve

SpecThreads == InitThreads /\ [][NextThreads]_vars

-----------------------------------------------------------------------------
(* main(): the fixed-timestep loop.  The accumulator, the frame time and    *)
(* fixedTimeStep are floats; the model holds each as the whole number of    *)
(* units of 2^-30 s it is a multiple of, and rounds a sum or a difference   *)
(* as the float operation does                                              *)

\* update() calls main() makes in one behaviour
MaxLoopSteps == 31

\* the float 1.0f / 120.0f is 8947849 * 2^-30
FixedTimeStepUnits == 8947849

\* the float 0.25f is 2^28 * 2^-30
AccumulatorCap == 268435456

\* the loop as it would be without the cap
Uncapped(sum) == sum

\* if (accumulator > 0.25f) accumulator = 0.25f
CapAccumulator(sum) == IF sum > AccumulatorCap THEN AccumulatorCap ELSE sum

\* the spacing of the floats around x, in units: below 2^24 units every
\* whole number of units is a float
RECURSIVE Ulp(_, _)
Ulp(x, u) == IF x \div u < 16777216 THEN u ELSE Ulp(x, 2 * u)

\* the float nearest to x >= 0, ties to the even significand
RoundF(x) ==
    LET u == Ulp(x, 1)
        q == x \div u
        r == x % u
    IN IF 2 * r < u THEN q * u
       ELSE IF 2 * r > u THEN (q + 1) * u
       ELSE IF q % 2 = 0 THEN q * u ELSE (q + 1) * u

\* currentTime - lastTime of a loop iteration: nothing, half a step, just
\* under a step, a step, a 60 Hz frame, the cap, a stall of one second
FrameTimes == {0, 4473924, 8947848, 8947849, 17895698, 268435456, 1073741824}

\* the test shapes main() adds: a circle in the middle of the window, a
\* rectangle at a quarter and a triangle at three quarters of it
TestShapes ==
    << Circle(Vec(TDiv(WorldWidth * Scale, 2), TDiv(WorldHeight * Scale, 2)), 50 * Scale),
       Rectangle(Vec(TDiv(WorldWidth * Scale, 4), TDiv(WorldHeight * Scale, 4)),
                 80 * Scale, 60 * Scale),
       Triangle(Vec(TDiv(WorldWidth * Scale * 3, 4), TDiv(WorldHeight * Scale * 3, 4)),
                60 * Scale) >>

InitLoop ==
    /\ Constructed(WorldWidth, WorldHeight, TestShapes, DefaultGravity, DirectPairLimit)
    /\ MainIdle

\* what the statements of main() leave alone
EngineUnchanged == UNCHANGED << engineVars, historyVars >>

\* the head of a loop iteration: accumulator += frameTime, and the cap
MainFrame ==
    /\ mainpc = "frame"
    /\ \E frameTime \in FrameTimes :
          accumulator' = CapAccumulator(RoundF(accumulator + frameTime))
    /\ stepsThisFrame' = 0
    /\ mainpc' = "steps"
    /\ EngineUnchanged

\* while (accumulator >= fixedTimeStep): the call of update
MainStep ==
    /\ mainpc = "steps"
    /\ accumulator >= FixedTimeStepUnits
    /\ currentFrame < MaxLoopSteps
    /\ UpdateBegin(FixedTimeStep)
    /\ mainpc' = "update"
    /\ UNCHANGED << accumulator, stepsThisFrame >>

\* update has returned: accumulator -= fixedTimeStep
MainStepDone ==
    /\ mainpc = "update"
    /\ pc = "idle"
    /\ accumulator' = RoundF(accumulator - FixedTimeStepUnits)
    /\ stepsThisFrame' = stepsThisFrame + 1
    /\ mainpc' = "steps"
    /\ EngineUnchanged

\* the while loop is left; the frame is rendered
MainRender ==
    /\ mainpc = "steps"
    /\ accumulator < FixedTimeStepUnits
    /\ mainpc' = "frame"
    /\ UNCHANGED << accumulator, stepsThisFrame >>
    /\ EngineUnchanged

NextLoop ==
    \/ MainFrame
    \/ MainStep
    \/ MainStepDone
    \/ MainRender
    \/ UpdateBoundary
    \/ UpdateRebuild
    \/ UpdatePredict
    \/ UpdateDetect
    \/ UpdateResolve

SpecLoop == InitLoop /\ [][NextLoop]_vars


-----------------------------------------------------------------------------
(* A drag: the mouse handlers on a scene, with update between them *)

\* calls of the mouse handlers in one drag
MaxDragEvents == 4

\* update calls during one drag
MaxDragFrames == 1

\* where the mouse is pressed and where it is then moved: 10 units apart,
\* both on the bodies of the scenes
DragPoints == { Vec(100 * Scale, 100 * Scale), Vec(110 * Scale, 100 * Scale) }

\* a circle alone, and the circle with a rectangle added before it
DragScenes ==
    { << Circle(Vec(100 * Scale, 100 * Scale), 30 * Scale) >>,
      << Rectangle(Vec(105 * Scale, 100 * Scale), 60 * Scale, 40 * Scale),
         Circle(Vec(100 * Scale, 100 * Scale), 30 * Scale) >> }

InitDrag ==
    /\ \E scene \in DragScenes :
          Constructed(WorldWidth, WorldHeight, scene, DefaultGravity, DirectPairLimit)
    /\ MainIdle

DragPress == MousePress(MaxDragEvents, DragPoints, Delays)

DragMove == MouseMove(MaxDragEvents, DragPoints, Delays)

DragRelease == MouseRelease(MaxDragEvents)

\* a call of update(fixedTimeStep) during the drag
StepDrag ==
    /\ currentFrame < MaxDragFrames
    /\ UpdateBegin(FixedTimeStep)
    /\ UNCHANGED mainVars

NextDrag ==
    \/ DragPress
    \/ DragMove
    \/ DragRelease
    \/ StepDrag
    \/ UpdateBoundary
    \/ UpdateRebuild
    \/ UpdatePredict
    \/ UpdateDetect
    \/ UpdateResolve

SpecDrag == InitDrag /\ [][NextDrag]_vars

-----------------------------------------------------------------------------
(* update() on more bodies than a quadtree node holds *)

\* update() calls on the many bodies
MaxTreeFrames == 2

\* where the i-th of the bodies is: all at one point; spread over the
\* world; near each other in its bottom right quarter
Layouts ==
    { [i \in 1 .. (MAX_OBJECTS + 2) |-> Vec(100 * Scale, 100 * Scale)],
      [i \in 1 .. (MAX_OBJECTS + 2) |-> Vec((30 + 20 * i) * Scale, (40 + 60 * (i % 3)) * Scale)],
      [i \in 1 .. (MAX_OBJECTS + 2) |-> Vec((200 + 5 * i) * Scale, (150 + 2 * i) * Scale)] }

\* as many small circles as a node holds, one more, or two more
TreeScenes ==
    { [i \in 1 .. n |-> Circle(layout[i], 5 * Scale)] :
         layout \in Layouts, n \in MAX_OBJECTS .. (MAX_OBJECTS + 2) }

InitTree ==
    /\ \E scene \in TreeScenes, gravity \in {ZeroGravity, DefaultGravity} :
          Constructed(WorldWidth, WorldHeight, scene, gravity, DirectPairLimit)
    /\ MainIdle

\* a call of update(fixedTimeStep) on the many bodies
StepTree ==
    /\ currentFrame < MaxTreeFrames
    /\ UpdateBegin(FixedTimeStep)
    /\ UNCHANGED mainVars

NextTree ==
    \/ StepTree
    \/ UpdateBoundary
    \/ UpdateRebuild
    \/ UpdatePredict
    \/ UpdateDetect
    \/ UpdateResolve

SpecTree == InitTree /\ [][NextTree]_vars

-----------------------------------------------------------------------------
(* Shape::startDrag, updateDrag and endDrag called on a body in any order *)

\* calls of the three methods in one behaviour
MaxDragCalls == 7

\* what a call of a drag method on a body leaves alone
DragCallUnchanged ==
    UNCHANGED << shapes, heapTop, selectedShape, mousePressed, mousePosition, worldGravity,
                 worldBounds, currentFrame, collisionChecksThisFrame,
                 actualCollisionsThisFrame, quadtree, potentialPairs, spatialGrid,
                 neighborTracking, collisionPredictions, collisions, smallCount,
                 threadVars, pc, ub, mainVars, stamp, added, refsRead, phaseLog, tested >>

\* a moving circle, the body the methods are called on
DraggedBody == [Circle(Vec(100 * Scale, 100 * Scale), 30 * Scale)
                   EXCEPT !.vel = Vec(50 * Scale, -20 * Scale)]

InitCalls ==
    /\ Constructed(WorldWidth, WorldHeight, <<DraggedBody>>, DefaultGravity, DirectPairLimit)
    /\ MainIdle

\* shape->startDrag(mousePos)
StartDragCall ==
    /\ Len(mouseEvents) < MaxDragCalls
    /\ mouseEvents' = Append(mouseEvents, "startDrag")
    /\ \E a \in Live, mousePos \in DragPoints, d \in SteadyDelays :
          /\ clock' = clock + d
          /\ heap' = [heap EXCEPT ![a] = StartDrag(@, mousePos, clock')]
    /\ DragCallUnchanged

\* shape->updateDrag(mousePos)
UpdateDragCall ==
    /\ Len(mouseEvents) < MaxDragCalls
    /\ mouseEvents' = Append(mouseEvents, "updateDrag")
    /\ \E a \in Live, mousePos \in DragPoints, d \in SteadyDelays :
          /\ clock' = clock + d
          /\ heap' = [heap EXCEPT ![a] = UpdateDrag(@, mousePos, clock')]
    /\ DragCallUnchanged

\* shape->endDrag()
EndDragCall ==
    /\ Len(mouseEvents) < MaxDragCalls
    /\ mouseEvents' = Append(mouseEvents, "endDrag")
    /\ \E a \in Live : heap' = [heap EXCEPT ![a] = EndDrag(@)]
    /\ clock' = clock
    /\ DragCallUnchanged

NextCalls ==
    \/ StartDragCall
    \/ UpdateDragCall
    \/ EndDragCall

SpecCalls == InitCalls /\ [][NextCalls]_vars

-----------------------------------------------------------------------------
(* Two bodies in a world with room around them, no gravity: what update's
   narrow phase and resolution make of each pair *)

\* update calls on one pair
MaxPairFrames == 2

\* the side of the world the pairs are in
PairWorld == 400

\* where the first body of a pair is
PairCentre == Vec(200 * Scale, 200 * Scale)

\* where the second body is from the first: above, below, left and right of
\* it, askew, on it, touching a circle of radius 50, apart
PairOffsets ==
    { Vec(0, 102 * Scale), Vec(0, 100 * Scale), Vec(0, 50 * Scale), Vec(0, -50 * Scale),
      Vec(50 * Scale, 0), Vec(-50 * Scale, 0), Vec(30 * Scale, 40 * Scale),
      Vec(-30 * Scale, -40 * Scale), Vec(45 * Scale, -20 * Scale), Vec(0, 0),
      Vec(-70 * Scale, 45 * Scale), Vec(150 * Scale, 0) }

\* a body of each kind at a position
PairKinds(pos) ==
    { Circle(pos, 50 * Scale), Rectangle(pos, 60 * Scale, 40 * Scale),
      Triangle(pos, 60 * Scale) }

\* two bodies at rest
RestingPairs ==
    { <<a, b>> : a \in PairKinds(PairCentre),
                 b \in UNION {PairKinds(VAdd(PairCentre, off)) : off \in PairOffsets} }

\* the offset of the second circle and the velocity of the first, along it;
\* in a step of 1/120 s the first moves 1/120 of the velocity
HeadOnCourses ==
    { <<Vec(50 * Scale, 0), Vec(120 * Scale, 0)>>,
      <<Vec(-50 * Scale, 0), Vec(-120 * Scale, 0)>>,
      <<Vec(0, 50 * Scale), Vec(0, 120 * Scale)>>,
      <<Vec(30 * Scale, 40 * Scale), Vec(72 * Scale, 96 * Scale)>> }

\* two overlapping circles of the same mass and restitution 1 that move
\* toward each other along the line of their centres at the same speed
HeadOnPairs ==
    { << [Circle(PairCentre, 50 * Scale)
             EXCEPT !.mass = m, !.restitution = 100, !.vel = c[2]],
         [Circle(VAdd(PairCentre, c[1]), 50 * Scale)
             EXCEPT !.mass = m, !.restitution = 100, !.vel = VSub(Vec(0, 0), c[2])] >> :
         c \in HeadOnCourses, m \in {1, 2} }

\* a static circle or rectangle at rest and a circle of mass 1 or 2 that
\* overlaps it and moves toward it, in either order of addition
StaticPairs ==
    LET still == { [k EXCEPT !.isStatic = TRUE] :
                      k \in { Circle(PairCentre, 50 * Scale),
                              Rectangle(PairCentre, 60 * Scale, 40 * Scale) } }
        moving == { [Circle(VAdd(PairCentre, c[1]), 50 * Scale)
                        EXCEPT !.mass = m, !.vel = VSub(Vec(0, 0), c[2])] :
                       c \in HeadOnCourses, m \in {1, 2} }
    IN { <<a, b>> : a \in still, b \in moving } \cup { <<b, a>> : a \in still, b \in moving }

ScenesOfPairs == RestingPairs \cup HeadOnPairs \cup StaticPairs

InitPair ==
    /\ \E scene \in ScenesOfPairs :
          Constructed(PairWorld, PairWorld, scene, ZeroGravity, DirectPairLimit)
    /\ MainIdle

\* a call of update(fixedTimeStep) on the pair
StepPair ==
    /\ currentFrame < MaxPairFrames
    /\ UpdateBegin(FixedTimeStep)
    /\ UNCHANGED mainVars

NextPair ==
    \/ StepPair
    \/ UpdateBoundary
    \/ UpdateRebuild
    \/ UpdatePredict
    \/ UpdateDetect
    \/ UpdateResolve

SpecPair == InitPair /\ [][NextPair]_vars

-----------------------------------------------------------------------------
(* Bodies constructed with any size, added to the engine *)

\* the size parameters a caller passes to a constructor
Sizes == { -10 * Scale, 0, 10 * Scale, 30 * Scale }

\* a body of each kind with each size, as its constructor makes it
SizedBodies ==
    LET pos == Vec(100 * Scale, 100 * Scale)
    IN {Circle(pos, r) : r \in Sizes}
          \cup {Rectangle(pos, w, h) : w \in Sizes, h \in Sizes}
          \cup {Triangle(pos, side) : side \in Sizes}

\* addShape of a body of any size
AddSized == AddShapeOf(SizedBodies)

NextSize ==
    \/ AddSized
    \/ ClearShapes

SpecSize == Init /\ [][NextSize]_vars

-----------------------------------------------------------------------------
(* Properties *)

\* C1: at all times selectedShape is NULL or the address of a body of the
\* collection, so that no mouse handler follows a pointer to a removed body.
StaleSelectionNeverFollowed ==
    /\ selectedShape = NULL \/ selectedShape \in Live
    /\ ub = "none"

\* C2: during an update, every address read from the neighbor cache, the
\* quadtree or the pair list and followed is that of a body of the
\* collection, whatever removeShape calls came between the updates.
CachedRefsAreLive ==
    /\ pc # "idle" => refsRead \subseteq Live
    /\ ub = "none"

\* C3: no step of update changes the position or the velocity of a static
\* body, whatever overlaps it.
StaticBodiesStay ==
    [][\A a \in DOMAIN heap :
          heap[a].isStatic => /\ heap'[a].pos = heap[a].pos
                              /\ heap'[a].vel = heap[a].vel]_vars

\* C3, its case: update has returned after resolving a contact, deeper than
\* the slop, of a static body with a non-static one.
StaticBodyWasHit ==
    /\ pc = "idle"
    /\ currentFrame > 0
    /\ \E k \in DOMAIN collisions :
          /\ heap[collisions[k].shapeA].isStatic # heap[collisions[k].shapeB].isStatic
          /\ collisions[k].penetration > Slop

\* the heap before the k-th contact of the list is resolved
HeapBefore(k) == ResolveAll(heap, SubSeq(collisions, 1, k - 1))

\* C4: when resolveCollisions comes to a contact of two static bodies, it
\* leaves both as they are and divides by no zero, whatever their masses.
StaticContactsAreNoOps ==
    pc = "resolve" =>
       \A k \in DOMAIN collisions :
          LET h == HeapBefore(k)
              c == collisions[k]
          IN (h[c.shapeA].isStatic /\ h[c.shapeB].isStatic) =>
                /\ ResolveOne(h, c) = h
                /\ ~DividesByZero(h[c.shapeA], h[c.shapeB], c.normal)

\* C4, its case: resolveCollisions is about to resolve a contact of two
\* static bodies whose masses are both 0.
StaticContactOfZeroMass ==
    /\ pc = "resolve"
    /\ \E k \in DOMAIN collisions :
          /\ heap[collisions[k].shapeA].isStatic /\ heap[collisions[k].shapeB].isStatic
          /\ heap[collisions[k].shapeA].mass + heap[collisions[k].shapeB].mass = 0

\* a non-static body alone in the world, at rest, with no gravity on it
AloneAtRest(a) ==
    /\ shapes = <<a>>
    /\ ~heap[a].isStatic
    /\ heap[a].vel = Vec(0, 0)
    /\ worldGravity = Vec(0, 0)
    /\ heap[a].gravity = 0

\* the bounding box of the body lies within the world
BoxInsideWorld(s) ==
    LET bbox == GetBoundingBox(s)
    IN /\ bbox.min[1] >= 0 /\ bbox.max[1] <= worldBounds[1]
       /\ bbox.min[2] >= 0 /\ bbox.max[2] <= worldBounds[2]

\* the bounding circle of the body lies within the world
CircleInsideWorld(s) ==
    LET radius == GetBoundingRadius(s)
    IN /\ s.pos[1] - radius >= 0 /\ s.pos[1] + radius <= worldBounds[1]
       /\ s.pos[2] - radius >= 0 /\ s.pos[2] + radius <= worldBounds[2]

\* C5, as stated: a non-static body alone, at rest, with no gravity, whose
\* bounding box lies inside the world keeps its position and its zero
\* velocity in every step of update.
BodyInsideStaysAtRest ==
    [][\A a \in DOMAIN heap :
          (AloneAtRest(a) /\ BoxInsideWorld(heap[a])) =>
             /\ heap'[a].pos = heap[a].pos
             /\ heap'[a].vel = Vec(0, 0)]_vars

\* C5, amended: a non-static body alone, at rest, with no gravity, whose
\* bounding circle lies inside the world keeps its position and its zero
\* velocity in every step of update.
BodyWithCircleInsideStaysAtRest ==
    [][\A a \in DOMAIN heap :
          (AloneAtRest(a) /\ CircleInsideWorld(heap[a])) =>
             /\ heap'[a].pos = heap[a].pos
             /\ heap'[a].vel = Vec(0, 0)]_vars

\* C5, its case: update has returned for a rectangle alone at rest whose
\* bounding circle lies inside the world.
RectangleAtRestAfterUpdate ==
    /\ pc = "idle"
    /\ currentFrame > 0
    /\ \E a \in DOMAIN heap :
          /\ AloneAtRest(a)
          /\ heap[a].type = "RECTANGLE"
          /\ CircleInsideWorld(heap[a])


\* C6: getShapes() enumerates the bodies that were added and not since
\* removed, each once, in the order they were added; so a removeShape of an
\* absent body changes nothing and removing every body leaves none.
ShapesAreAddedNotRemoved ==
    /\ Range(shapes) = DOMAIN stamp
    /\ \A i, j \in DOMAIN shapes : i < j => stamp[shapes[i]] < stamp[shapes[j]]

\* C6, its case: two bodies were added and the first one removed.
FirstOfTwoRemoved ==
    /\ added >= 2
    /\ Len(shapes) = 1
    /\ stamp[shapes[1]] = 2

\* the phases of update, as PhysicsEngine::update lists them
PhaseOrder == <<"integrate", "boundary", "rebuild", "predict", "detect", "resolve">>

\* C7: the phases of an update run in the order integrate, boundary, rebuild,
\* predict, detect, resolve, each once; and when resolution starts every pair
\* has been tested on the bodies as resolution finds them.
PhasesInOrder ==
    /\ Len(phaseLog) <= Len(PhaseOrder)
    /\ phaseLog = SubSeq(PhaseOrder, 1, Len(phaseLog))
    /\ pc = "idle" => phaseLog \in {<<>>, PhaseOrder}
    /\ pc # "idle" => pc = PhaseOrder[Len(phaseLog) + 1]
    /\ pc = "resolve" =>
          tested = TestPairs(DetectionPairs(shapes, potentialPairs, smallCount), heap)

\* C7, its case: detection has found a contact and resolution has not begun.
ContactAwaitsResolution ==
    /\ pc = "resolve"
    /\ collisions # <<>>

\* C8: the counters are 0 from the start of update until detection; after
\* it, collisionChecksThisFrame is the number of pairs tested and
\* actualCollisionsThisFrame the number of tests that hit; both are 0 for
\* fewer than two bodies.
CountersCountTests ==
    /\ pc \in {"boundary", "rebuild", "predict", "detect"} =>
          collisionChecksThisFrame = 0 /\ actualCollisionsThisFrame = 0
    /\ pc \in {"resolve", "idle"} =>
          /\ collisionChecksThisFrame = Len(tested)
          /\ actualCollisionsThisFrame = Len(SelectSeq(tested, LAMBDA r : r.hit))
          /\ actualCollisionsThisFrame <= collisionChecksThisFrame
    /\ (pc \in {"resolve", "idle"} /\ currentFrame > 0) =>
          Len(tested) = Len(DetectionPairs(shapes, potentialPairs, smallCount))
    /\ Len(shapes) <= 1 =>
          collisionChecksThisFrame = 0 /\ actualCollisionsThisFrame = 0

\* C8, its case: the second update has returned after a test that hit.
SecondUpdateCounted ==
    /\ pc = "idle"
    /\ currentFrame = 2
    /\ collisionChecksThisFrame = 1
    /\ actualCollisionsThisFrame = 1

\* C9: the accumulator is never negative and never above the cap when the
\* steps are taken; a loop iteration calls update at most
\* floor(0.25 / fixedTimeStep) times, which is at most 30; and when the
\* inner loop is left the accumulator is below fixedTimeStep.
StepsPerFrameBounded ==
    /\ accumulator >= 0
    /\ mainpc \in {"steps", "update"} => accumulator <= AccumulatorCap
    /\ stepsThisFrame <= AccumulatorCap \div FixedTimeStepUnits
    /\ AccumulatorCap \div FixedTimeStepUnits <= 30
    /\ mainpc = "frame" => accumulator < FixedTimeStepUnits

\* C9, its case: an iteration that started from the cap has left the inner
\* loop after 29 calls of update.
CappedFrameDone ==
    /\ mainpc = "frame"
    /\ stepsThisFrame = 29

\* the unordered pairs of a pair list
UnorderedPairs(pairs) == {{pairs[k][1], pairs[k][2]} : k \in DOMAIN pairs}

\* C10, as stated: when the grid path has made the pair list, its unordered
\* pairs are those of the all-pairs enumeration.
GridPairsEqualAllPairs ==
    (pc = "predict" /\ Len(shapes) > smallCount) =>
       UnorderedPairs(potentialPairs) =
          UnorderedPairs(BroadPhaseUpdate(shapes, heap, DirectPairLimit))

\* C10, amended: when the grid path has made the pair list, its unordered
\* pairs are among those of the all-pairs enumeration, and every pair of
\* bodies whose bounding boxes intersect is one of them.
GridPairsCoverIntersectingBoxes ==
    (pc = "predict" /\ Len(shapes) > smallCount) =>
       /\ UnorderedPairs(potentialPairs) \subseteq
             UnorderedPairs(BroadPhaseUpdate(shapes, heap, DirectPairLimit))
       /\ \A a, b \in Live :
             (a # b /\ Intersects(GetBoundingBox(heap[a]), GetBoundingBox(heap[b]))) =>
                {a, b} \in UnorderedPairs(potentialPairs)

\* C10, its case: the grid path has made a pair list that holds a pair of
\* bodies whose boxes intersect and lacks a pair of bodies that are apart.
GridListLacksDistantPair ==
    /\ pc = "predict"
    /\ Len(shapes) > smallCount
    /\ \E a, b \in Live :
          /\ a # b
          /\ Intersects(GetBoundingBox(heap[a]), GetBoundingBox(heap[b]))
          /\ {a, b} \in UnorderedPairs(potentialPairs)
    /\ \E a, b \in Live : a # b /\ {a, b} \notin UnorderedPairs(potentialPairs)


\* a step that is a call of the mouse handler named kind
MouseStep(kind) ==
    /\ Len(mouseEvents') = Len(mouseEvents) + 1
    /\ mouseEvents'[Len(mouseEvents')] = kind

\* the places in shapes of the bodies that contain the point p
PlacesContaining(p) == {i \in DOMAIN shapes : ContainsPoint(heap[shapes[i]], p)}

\* C11: handleMousePress(p) selects the body that comes first in shapes
\* among those that contain p and starts the drag of that body alone; when
\* no body contains p it selects none and leaves every body as it is.
PressSelectsFirstContaining ==
    [][MouseStep("press") =>
          LET hit == PlacesContaining(mousePosition')
          IN /\ mousePressed'
             /\ hit = {} => selectedShape' = NULL /\ heap' = heap
             /\ hit # {} =>
                   /\ selectedShape' = shapes[CHOOSE i \in hit : \A k \in hit : i <= k]
                   /\ heap'[selectedShape'].isDragging
                   /\ heap'[selectedShape'].isSelected
                   /\ heap'[selectedShape'].pos = heap[selectedShape'].pos
                   /\ \A a \in DOMAIN heap \ {selectedShape'} : heap'[a] = heap[a]]_vars

\* C11, its case: a press on a point that two bodies contain has selected the
\* one that was added first.
PressedOnTwoBodies ==
    /\ mouseEvents # <<>>
    /\ mouseEvents[Len(mouseEvents)] = "press"
    /\ Len(shapes) = 2
    /\ PlacesContaining(mousePosition) = {1, 2}
    /\ selectedShape = shapes[1]
    /\ heap[shapes[1]].isDragging
    /\ ~heap[shapes[2]].isDragging


\* C12: when handleMouseRelease ends a drag whose history holds two samples
\* or more, the body's velocity becomes the distance between the last two
\* samples divided by the time between them if that time is more than
\* 0.0001 s (one tick), and stays what it was otherwise.
ReleaseVelocityFromLastSamples ==
    [][(/\ MouseStep("release")
        /\ selectedShape \in DOMAIN heap
        /\ Len(heap[selectedShape].dragHistory) >= 2) =>
          LET s == heap[selectedShape]
              n == Len(s.dragHistory)
              ticks == s.dragHistory[n][2] - s.dragHistory[n - 1][2]
              moved == VSub(s.dragHistory[n][1], s.dragHistory[n - 1][1])
              after == heap'[selectedShape]
          IN IF ticks > 1
             THEN /\ after.vel[1] * ticks = moved[1] * 10000
                  /\ after.vel[2] * ticks = moved[2] * 10000
             ELSE after.vel = s.vel]_vars

\* C12, its case: a body dragged 10 units along x in a tenth of a second
\* has been released with the velocity (100, 0).
ReleasedAtHundred ==
    /\ mouseEvents # <<>>
    /\ mouseEvents[Len(mouseEvents)] = "release"
    /\ currentFrame = 0
    /\ \E a \in DOMAIN heap :
          /\ ~heap[a].isDragging
          /\ heap[a].vel = Vec(100 * Scale, 0)


\* the results of the current update's tests of two bodies of the kinds
\* given, with the bodies as they were when tested
TestsOf(kindA, kindB) ==
    {r \in Range(tested) : heap[r.shapeA].type = kindA /\ heap[r.shapeB].type = kindB}

\* C13: the test of two circles hits exactly when the distance of the
\* centres is less than the sum of the radii; when it hits and the centres
\* differ, the penetration is the sum less the distance (to the hundredth)
\* and the normal lies along the line from the first centre to the second.
CirclesHitWithinRadiusSum ==
    pc = "resolve" =>
       \A r \in TestsOf("CIRCLE", "CIRCLE") :
          LET d == VSub(heap[r.shapeB].pos, heap[r.shapeA].pos)
              sum == heap[r.shapeA].radius + heap[r.shapeB].radius
              distance == sum - r.penetration
          IN /\ r.hit <=> Dot(d, d) < sum * sum
             /\ (r.hit /\ d # Vec(0, 0)) =>
                   /\ distance * distance <= Dot(d, d)
                   /\ Dot(d, d) < (distance + 1) * (distance + 1)
                   /\ Abs(Cross(r.normal, d)) <= Abs(d[1]) + Abs(d[2])
                   /\ Dot(r.normal, d) > 0

\* C13, its case: circles of radius 50 with centres 50 apart along y have
\* been found to collide with normal (0, 1) and penetration 50.
CirclesFiftyApartHit ==
    /\ pc = "resolve"
    /\ \E r \in TestsOf("CIRCLE", "CIRCLE") :
          /\ heap[r.shapeA].radius = 50 * Scale /\ heap[r.shapeB].radius = 50 * Scale
          /\ VSub(heap[r.shapeB].pos, heap[r.shapeA].pos) = Vec(0, 50 * Scale)
          /\ r.hit
          /\ r.normal = Vec(0, NormScale)
          /\ r.penetration = 50 * Scale


\* the one contact of the list is of two non-static circles of the same mass
\* and restitution 1 whose velocities are opposite, along the line of their
\* centres and toward each other
HeadOnElasticContact ==
    /\ Len(collisions) = 1
    /\ LET a == heap[collisions[1].shapeA]
           b == heap[collisions[1].shapeB]
           d == VSub(b.pos, a.pos)
       IN /\ a.type = "CIRCLE" /\ b.type = "CIRCLE"
          /\ ~a.isStatic /\ ~b.isStatic
          /\ a.mass = b.mass /\ a.mass > 0
          /\ a.restitution = 100 /\ b.restitution = 100
          /\ a.vel = VSub(Vec(0, 0), b.vel)
          /\ Cross(a.vel, d) = 0
          /\ Dot(a.vel, d) > 0

\* C14: resolving the contact of two equal circles in a head-on elastic
\* collision leaves each with the velocity the other had.
HeadOnVelocitiesSwap ==
    [][(pc = "resolve" /\ pc' = "idle" /\ HeadOnElasticContact) =>
          /\ heap'[collisions[1].shapeA].vel = heap[collisions[1].shapeB].vel
          /\ heap'[collisions[1].shapeB].vel = heap[collisions[1].shapeA].vel]_vars

\* C14, its case: two circles of mass 1 that met head-on along a slanted
\* line have been resolved and now move apart.
HeadOnResolved ==
    /\ pc = "idle"
    /\ currentFrame = 1
    /\ Len(collisions) = 1
    /\ LET a == heap[collisions[1].shapeA]
           b == heap[collisions[1].shapeB]
       IN /\ a.mass = 1 /\ b.mass = 1
          /\ a.restitution = 100 /\ b.restitution = 100
          /\ a.vel = Vec(-72 * Scale, -96 * Scale)
          /\ b.vel = Vec(72 * Scale, 96 * Scale)


\* C15: every body of the engine, whatever size its constructor was given,
\* has a positive stored size, a positive bounding radius and a bounding box
\* of positive extent.
SizesArePositive ==
    \A a \in DOMAIN heap :
       LET s == heap[a]
           bbox == GetBoundingBox(s)
       IN /\ s.type = "CIRCLE" => s.radius > 0
          /\ s.type = "RECTANGLE" => s.width > 0 /\ s.height > 0
          /\ s.type = "TRIANGLE" => s.sideLength > 0
          /\ GetBoundingRadius(s) > 0
          /\ bbox.max[1] > bbox.min[1]
          /\ bbox.max[2] > bbox.min[2]


\* the test r is of a pair whose separation is not under the epsilon: two
\* circles with different centres, two rectangles, or a circle and a
\* rectangle with the circle's centre outside the rectangle
SeparationAboveEpsilon(r) ==
    LET a == heap[r.shapeA]
        b == heap[r.shapeB]
    IN \/ a.type = "CIRCLE" /\ b.type = "CIRCLE" /\ a.pos # b.pos
       \/ a.type = "RECTANGLE" /\ b.type = "RECTANGLE"
       \/ a.type = "CIRCLE" /\ b.type = "RECTANGLE" /\ ~ContainsPoint(b, a.pos)
       \/ a.type = "RECTANGLE" /\ b.type = "CIRCLE" /\ ~ContainsPoint(a, b.pos)

\* C16: the normal of every contact that checkCollision(a, b) reports for a
\* separation not under the epsilon points from a toward b: its dot product
\* with position(b) - position(a) is not negative.
NormalPointsFromFirstToSecond ==
    pc = "resolve" =>
       \A r \in Range(tested) :
          (r.hit /\ SeparationAboveEpsilon(r)) =>
             Dot(r.normal, VSub(heap[r.shapeB].pos, heap[r.shapeA].pos)) >= 0


\* the one contact of the list is of a static body at rest and a non-static
\* body that moves toward it; the two, static first
StaticAndMoving ==
    LET a == collisions[1].shapeA
        b == collisions[1].shapeB
    IN IF heap[a].isStatic THEN <<a, b>> ELSE <<b, a>>

ContactWithStatic ==
    /\ Len(collisions) = 1
    /\ heap[collisions[1].shapeA].isStatic # heap[collisions[1].shapeB].isStatic
    /\ LET still == heap[StaticAndMoving[1]]
           moving == heap[StaticAndMoving[2]]
       IN /\ still.vel = Vec(0, 0)
          /\ moving.mass > 0
          /\ Dot(moving.vel, VSub(still.pos, moving.pos)) > 0
          /\ Dot(moving.vel, collisions[1].normal) # 0

\* C17: resolving the contact of a static body and a non-static body that
\* moves toward it reverses the non-static body's velocity along the normal
\* and scales it by the smaller restitution, and leaves the static body's
\* velocity as it was.
StaticContactBounces ==
    [][(pc = "resolve" /\ pc' = "idle" /\ ContactWithStatic) =>
          LET s == StaticAndMoving[1]
              m == StaticAndMoving[2]
              n == collisions[1].normal
              e == Min(heap[s].restitution, heap[m].restitution)
          IN /\ TDiv(Dot(heap'[m].vel, n), NormScale) * 100
                   = -e * TDiv(Dot(heap[m].vel, n), NormScale)
             /\ heap'[s].vel = heap[s].vel]_vars


\* C18: the test of a pair with a triangle in it hits exactly when the
\* bounding boxes of the two bodies overlap.
TrianglePairsHitByBoxes ==
    pc = "resolve" =>
       \A r \in Range(tested) :
          (heap[r.shapeA].type = "TRIANGLE" \/ heap[r.shapeB].type = "TRIANGLE") =>
             (r.hit <=> Intersects(GetBoundingBox(heap[r.shapeA]),
                                   GetBoundingBox(heap[r.shapeB])))


\* C19: the first phase of update changes every non-static body by
\* velocity += gravity * dt, with the world's gravity or the body's own,
\* then velocity *= 1 - friction * dt, then position += velocity * dt.
IntegrationAppliesFriction ==
    [][(pc = "idle" /\ pc' = "boundary") =>
          \A a \in DOMAIN heap :
             ~heap[a].isStatic =>
                LET s == heap[a]
                    gravity == IF s.useGlobalGravity THEN worldGravity ELSE Vec(0, s.gravity)
                    pulled == VAdd(s.vel, Vec(TimesDt(gravity[1], FixedTimeStep),
                                              TimesDt(gravity[2], FixedTimeStep)))
                    slowed == VSub(pulled,
                                   Vec(TDiv(TimesDt(pulled[1] * s.friction, FixedTimeStep), 100),
                                       TDiv(TimesDt(pulled[2] * s.friction, FixedTimeStep), 100)))
                IN /\ heap'[a].vel = slowed
                   /\ heap'[a].pos = VAdd(s.pos, Vec(TimesDt(slowed[1], FixedTimeStep),
                                                     TimesDt(slowed[2], FixedTimeStep)))]_vars


\* the centre of the body s is at least its bounding radius from every edge
\* of the world
CentreInRange(s) ==
    LET radius == GetBoundingRadius(s)
    IN /\ radius <= s.pos[1] /\ s.pos[1] <= worldBounds[1] - radius
       /\ radius <= s.pos[2] /\ s.pos[2] <= worldBounds[2] - radius

\* C20: the boundary phase of update leaves the centre of every non-static
\* body whose bounding diameter fits the world on both axes at least its
\* bounding radius from every edge, and does not move a body that already
\* was.
BoundaryPutsCentreInRange ==
    [][(pc = "boundary" /\ pc' = "rebuild") =>
          \A a \in DOMAIN heap :
             (/\ ~heap[a].isStatic
              /\ 2 * GetBoundingRadius(heap[a]) <= worldBounds[1]
              /\ 2 * GetBoundingRadius(heap[a]) <= worldBounds[2]) =>
                /\ CentreInRange(heap'[a])
                /\ CentreInRange(heap[a]) => heap'[a].pos = heap[a].pos]_vars

\* C20, its case: the boundary phase has brought a rectangle that reached
\* over the right and the bottom edge back to its bounding radius from both.
RectangleBroughtBack ==
    /\ pc = "rebuild"
    /\ shapes # <<>>
    /\ LET s == heap[shapes[1]]
       IN /\ s.type = "RECTANGLE"
          /\ ~s.isStatic
          /\ s.pos = Vec(worldBounds[1] - GetBoundingRadius(s),
                         worldBounds[2] - GetBoundingRadius(s))


\* the places in potentialPairs that thread i of a detection under way tests
PlacesOf(i) == (workers[i].start + 1) .. workers[i].end

\* how many of the tests recorded were of the pair p
TimesTested(p) == Cardinality({k \in DOMAIN tested : <<tested[k].shapeA, tested[k].shapeB>> = p})

\* C25: in multi-threaded detection the pair list is split into contiguous
\* ranges, one for each of the threadCount threads, such that every place of
\* the list is in the range of exactly one thread; when the threads are
\* joined each has tested its whole range and every pair of the list has
\* been tested once; no body is written while a thread is not joined, and
\* none is left when resolveCollisions runs.  This holds also with fewer
\* pairs than threads.
ThreadsSplitThePairList ==
    /\ [](pc = "join" =>
            /\ Len(workers) = threadCount
            /\ \A k \in DOMAIN potentialPairs :
                  Cardinality({i \in DOMAIN workers : k \in PlacesOf(i)}) = 1
            /\ \A i \in DOMAIN workers : PlacesOf(i) \subseteq DOMAIN potentialPairs)
    /\ [](pc = "resolve" => workers = <<>>)
    /\ [][/\ workers # <<>> => heap' = heap
          /\ (pc = "join" /\ pc' = "resolve") =>
                /\ \A i \in DOMAIN workers : workers[i].next = workers[i].end
                /\ Len(tested) = Len(potentialPairs)
                /\ \A k \in DOMAIN potentialPairs : TimesTested(potentialPairs[k]) = 1]_vars

\* C25, its case: the threads have been joined after a detection with fewer
\* pairs than threads, and the one pair has been tested.
FewerPairsThanThreadsJoined ==
    /\ pc = "resolve"
    /\ MultiThreaded
    /\ Len(potentialPairs) = 1
    /\ threadCount > 1
    /\ Len(tested) = 1
    /\ workers = <<>>


\* C29: after a multi-threaded detection, whatever the interleaving of the
\* threads, collisionChecksThisFrame is the number of pairs tested,
\* actualCollisionsThisFrame is the number of contacts collected, and
\* collisions is the list the single-threaded loop makes of the same pair
\* list, in the same order.
ThreadedCountersAndContactsExact ==
    (pc = "resolve" /\ MultiThreaded) =>
        /\ collisionChecksThisFrame = Len(tested)
        /\ actualCollisionsThisFrame = Len(collisions)
        /\ collisions = Contacts(TestPairs(potentialPairs, heap))


\* the pairs of the tests recorded, in their order
PairsTested(tests) == [k \in DOMAIN tests |-> <<tests[k].shapeA, tests[k].shapeB>>]

\* C21: the detection of every update tests each candidate pair exactly once,
\* whatever predictCollisions has predicted: with at most smallCount (200)
\* bodies the candidates are the n(n-1)/2 unordered pairs of distinct
\* bodies, with more they are the pairs of the broad-phase list, which is
\* the one made of the bodies as they are in this update; none is left for a
\* later update.
EachCandidatePairTestedOnce ==
    [][(pc = "detect" /\ pc' = "resolve") =>
          LET pairs == PairsTested(tested')
              n == Len(shapes)
          IN /\ \A k, l \in DOMAIN pairs :
                   k # l => {pairs[k][1], pairs[k][2]} # {pairs[l][1], pairs[l][2]}
             /\ \A k \in DOMAIN pairs : pairs[k][1] # pairs[k][2]
             /\ IF n <= smallCount
                THEN /\ 2 * Len(pairs) = n * (n - 1)
                     /\ \A a, b \in Live : a # b => {a, b} \in UnorderedPairs(pairs)
                ELSE /\ pairs = potentialPairs
                     /\ Range(potentialPairs) = GridPairSet(shapes, heap)]_vars

\* C21, its case: predictCollisions has made predictions, the grid's list
\* has fewer pairs than there are pairs of bodies, and each of its pairs has
\* been tested in this update.
GridListTestedDespitePredictions ==
    /\ pc = "resolve"
    /\ collisionPredictions # <<>>
    /\ Len(shapes) > smallCount
    /\ PairsTested(tested) = potentialPairs
    /\ 0 < Len(potentialPairs)
    /\ 2 * Len(potentialPairs) < Len(shapes) * (Len(shapes) - 1)


\* C22: the pair list the grid path makes holds pairs of distinct bodies of
\* the engine, holds no pair twice in either order, however many cells the
\* two bodies share, and holds every pair of bodies whose bounding boxes
\* overlap, also where coordinates are negative.
GridListIsSetOfOverlappingPairs ==
    (pc = "predict" /\ Len(shapes) > smallCount) =>
       /\ \A k \in DOMAIN potentialPairs :
             /\ potentialPairs[k][1] # potentialPairs[k][2]
             /\ {potentialPairs[k][1], potentialPairs[k][2]} \subseteq Live
       /\ \A k, l \in DOMAIN potentialPairs :
             k # l => {potentialPairs[k][1], potentialPairs[k][2]} #
                      {potentialPairs[l][1], potentialPairs[l][2]}
       /\ \A a, b \in Live :
             (a # b /\ Intersects(GetBoundingBox(heap[a]), GetBoundingBox(heap[b]))) =>
                \E k \in DOMAIN potentialPairs :
                   {potentialPairs[k][1], potentialPairs[k][2]} = {a, b}

\* C22, its case: two bodies to the left of the world, where x is negative,
\* overlap and share more than one cell, and the grid's list holds the one
\* pair of them.
NegativePairListedOnce ==
    /\ pc = "predict"
    /\ Len(shapes) > smallCount
    /\ \E a, b \in Live :
          /\ a # b
          /\ GetBoundingBox(heap[a]).max[1] < 0
          /\ GetBoundingBox(heap[b]).max[1] < 0
          /\ Intersects(GetBoundingBox(heap[a]), GetBoundingBox(heap[b]))
          /\ Cardinality(CellsOf(heap[a]) \cap CellsOf(heap[b])) > 1
          /\ Len(potentialPairs) = 1
          /\ {potentialPairs[1][1], potentialPairs[1][2]} = {a, b}


\* the displacement the claim gives a body of a contact of penetration p
\* along the normal n: (p - slop) / (mA + mB) * percent * n, times the share
\* of the other body's mass in mA + mB
ClaimedShift(p, n, other, total) ==
    Vec(TDiv((p - Slop) * Percent * n[1] * other, 100 * NormScale * total * total),
        TDiv((p - Slop) * Percent * n[2] * other, 100 * NormScale * total * total))

\* C23: in the positional correction of a contact, a penetration of at most
\* the slop moves no body; with more, the first body, if not static, moves
\* against the normal and the second, if not static, along it, each away from
\* the other body and by (penetration - slop) / (mA + mB) * percent * (the
\* other's mass) / (mA + mB); a static body is not moved.
CorrectionSeparatesBodies ==
    [][(pc = "resolve" /\ pc' = "idle" /\ Len(collisions) = 1) =>
          LET c == collisions[1]
              a == heap[c.shapeA]
              b == heap[c.shapeB]
              movedA == VSub(heap'[c.shapeA].pos, a.pos)
              movedB == VSub(heap'[c.shapeB].pos, b.pos)
              total == a.mass + b.mass
              apart == VSub(b.pos, a.pos)
          IN /\ c.penetration <= Slop => movedA = Vec(0, 0) /\ movedB = Vec(0, 0)
             /\ a.isStatic => movedA = Vec(0, 0)
             /\ b.isStatic => movedB = Vec(0, 0)
             /\ (c.penetration > Slop /\ ~a.isStatic) =>
                   /\ movedA = VSub(Vec(0, 0), ClaimedShift(c.penetration, c.normal, b.mass, total))
                   /\ Dot(movedA, apart) <= 0
             /\ (c.penetration > Slop /\ ~b.isStatic) =>
                   /\ movedB = ClaimedShift(c.penetration, c.normal, a.mass, total)
                   /\ Dot(movedB, apart) >= 0]_vars


\* the centres of a and b are at most maxNeighborDistance apart
WithinNeighborDistance(a, b) ==
    LET d == VSub(heap[a].pos, heap[b].pos)
    IN Dot(d, d) <= MaxNeighborDistance * MaxNeighborDistance

\* C24: the rebuild step of update refills the quadtree with exactly the
\* current bodies and makes the broad-phase list anew of them in every
\* update; it rebuilds the neighbor cache when currentFrame is a multiple of
\* neighborUpdateInterval - the cache then has one entry for each current
\* body, in order, and b is a neighbor of a exactly when a # b and their
\* centres are at most maxNeighborDistance apart - and no other step of
\* update changes the cache.
RebuildCadence ==
    [][IF pc = "rebuild" /\ pc' = "predict"
       THEN /\ QuadtreeObjects(quadtree') = Live
            /\ UnorderedPairs(potentialPairs') =
                  {{a, b} : <<a, b>> \in
                      {p \in Live \X Live :
                          /\ p[1] # p[2]
                          /\ \/ Len(shapes) <= smallCount
                             \/ CellsOf(heap[p[1]]) \cap CellsOf(heap[p[2]]) # {}}}
            /\ IF currentFrame % NeighborUpdateInterval = 0
               THEN /\ Len(neighborTracking') = Len(shapes)
                    /\ \A i \in DOMAIN shapes :
                          LET entry == neighborTracking'[i]
                          IN /\ entry.object = shapes[i]
                             /\ \A k, l \in DOMAIN entry.neighbors :
                                   k # l => entry.neighbors[k] # entry.neighbors[l]
                             /\ Range(entry.neighbors) =
                                   {b \in Live : b # shapes[i] /\
                                                 WithinNeighborDistance(shapes[i], b)}
               ELSE neighborTracking' = neighborTracking
       ELSE neighborTracking' = neighborTracking]_vars

\* C24, its case: the tenth update has rebuilt the cache: an entry for each
\* of the six bodies, four neighbors for a body of the crowd and none for the
\* far body; the quadtree holds the six bodies.
CacheRebuiltInTenthUpdate ==
    /\ pc = "predict"
    /\ currentFrame = NeighborUpdateInterval
    /\ Len(shapes) = 6
    /\ Len(neighborTracking) = 6
    /\ Len(neighborTracking[1].neighbors) = 4
    /\ neighborTracking[6].neighbors = <<>>
    /\ QuadtreeObjects(quadtree) = Live


\* C30: when the boundary loop of update clamps a non-static body on an axis,
\* the body's velocity on that axis is afterwards 0 or points into the
\* world: not negative at the wall at 0, not positive at the wall at the
\* world's extent; also for a body that was beyond the wall and already
\* moving back.
ClampedVelocityPointsInward ==
    [][(pc = "boundary" /\ pc' = "rebuild") =>
          \A a \in Live : \A axis \in {1, 2} :
             LET s == heap[a]
                 radius == GetBoundingRadius(s)
             IN ~s.isStatic =>
                   /\ s.pos[axis] - radius < 0 => heap'[a].vel[axis] >= 0
                   /\ (s.pos[axis] - radius >= 0 /\ s.pos[axis] + radius > worldBounds[axis]) =>
                         heap'[a].vel[axis] <= 0]_vars


\* C28: after any calls of the mouse handlers, among them two presses with
\* no release between, a body of the engine has its dragging or its selected
\* flag set exactly when it is the engine's selectedShape, so that at most
\* one body has a flag set.
FlagsMarkSelectedShapeOnly ==
    /\ \A a \in Live :
          (heap[a].isDragging \/ heap[a].isSelected) <=> a = selectedShape
    /\ Cardinality({a \in Live : heap[a].isDragging \/ heap[a].isSelected}) <= 1


\* the body the drag methods are called on
Dragged == heap[shapes[1]]

\* C27: whatever the order of the calls of startDrag, updateDrag and endDrag
\* on a body, its drag history never holds more than DRAG_HISTORY_SIZE (5)
\* samples, and a sample pushed onto a full history drops the oldest;
\* startDrag sets the velocity and the angular velocity to zero and makes
\* the history the one starting sample; updateDrag changes nothing of a body
\* that is not being dragged; after endDrag the history is empty and the
\* body is not being dragged.
DragHistoryBounded ==
    /\ [](Len(Dragged.dragHistory) <= DRAG_HISTORY_SIZE)
    /\ [][/\ MouseStep("startDrag") =>
                /\ Dragged'.vel = Vec(0, 0)
                /\ Dragged'.angularVelocity = 0
                /\ Dragged'.isDragging
                /\ Len(Dragged'.dragHistory) = 1
                /\ Dragged'.dragHistory[1][2] = clock'
          /\ MouseStep("updateDrag") =>
                IF Dragged.isDragging
                THEN LET old == Dragged.dragHistory
                         new == Dragged'.dragHistory
                     IN /\ new[Len(new)][2] = clock'
                        /\ IF Len(old) = DRAG_HISTORY_SIZE
                           THEN /\ Len(new) = DRAG_HISTORY_SIZE
                                /\ SubSeq(new, 1, Len(new) - 1) = Tail(old)
                           ELSE SubSeq(new, 1, Len(new) - 1) = old
                ELSE heap' = heap
          /\ MouseStep("endDrag") =>
                /\ Dragged'.dragHistory = <<>>
                /\ ~Dragged'.isDragging]_vars

\* C27, its case: after startDrag and five calls of updateDrag the history
\* holds the five last samples; the starting sample is gone.
OldestSampleDropped ==
    /\ Len(mouseEvents) >= 6
    /\ mouseEvents[Len(mouseEvents)] = "updateDrag"
    /\ Len(Dragged.dragHistory) = DRAG_HISTORY_SIZE
    /\ Dragged.dragHistory[DRAG_HISTORY_SIZE][2] = clock
    /\ Dragged.dragHistory[1][2] = clock - 4000
    /\ clock = 6000


\* a node and the nodes below it
RECURSIVE NodesBelow(_)
NodesBelow(node) ==
    {node} \cup UNION {NodesBelow(node.children[i]) : i \in DOMAIN node.children}

\* how many times the nodes from node down hold the body a
RECURSIVE TimesHeld(_, _)
TimesHeld(node, a) ==
    LET below == [i \in DOMAIN node.children |-> TimesHeld(node.children[i], a)]
    IN Cardinality({k \in DOMAIN node.objects : node.objects[k] = a})
       + (IF below = <<>> THEN 0 ELSE below[1] + below[2] + below[3] + below[4])

\* the node without children that the point p leads to from node: at each
\* node with children the child on p's side of the node's centre, right of
\* it when p.x is greater, top when p.y is greater
RECURSIVE NodeFor(_, _)
NodeFor(node, p) ==
    IF node.children = <<>> THEN node
    ELSE LET right == IF p[1] > node.center[1] THEN 1 ELSE 0
             top == IF p[2] > node.center[2] THEN 2 ELSE 0
         IN NodeFor(node.children[1 + right + top], p)

\* C26: after the quadtree has been cleared and every body inserted, every
\* body is held once, by the node its centre leads to; a node above the
\* deepest level (MAX_LEVELS) holds at most MAX_OBJECTS bodies and a node
\* with children holds none; no node lies deeper than MAX_LEVELS, wherever
\* the bodies are, also with many at one point.
QuadtreeHoldsEachBodyOnce ==
    pc = "predict" =>
       /\ \A a \in Live :
             /\ TimesHeld(quadtree, a) = 1
             /\ a \in Range(NodeFor(quadtree, heap[a].pos).objects)
       /\ \A node \in NodesBelow(quadtree) :
             /\ node.level <= MAX_LEVELS
             /\ node.level < MAX_LEVELS => Len(node.objects) <= MAX_OBJECTS
             /\ node.children # <<>> => node.objects = <<>>
             /\ Range(node.objects) \subseteq Live

\* C26, its case: more bodies than a node holds, all at one point: the nodes
\* have split down to the deepest level, where one node holds them all.
BodiesAtOnePointAtDeepestLevel ==
    /\ pc = "predict"
    /\ Len(shapes) > MAX_OBJECTS
    /\ \A a, b \in Live : heap[a].pos = heap[b].pos
    /\ quadtree.children # <<>>
    /\ \E node \in NodesBelow(quadtree) :
          /\ node.level = MAX_LEVELS
          /\ Len(node.objects) = Len(shapes)

====
